---- MODULE Spec2Model ----
(***************************************************************************)
(* protoc-gen-bean: a protoc plugin that turns a CodeGeneratorRequest into *)
(* Java value objects and protobuf-to-bean converters.                    *)
(*                                                                         *)
(* Three state machines are developed here:                                *)
(*   Spec        the shipped pipeline, cmd/protoc-gen-bean/main.go driving *)
(*               pkg/generator (params, WrapTypes, BuildTypeNameMap,       *)
(*               GenerateAllFiles, response write);                        *)
(*   LegacySpec  the pipeline of the root main.go, which has the package   *)
(*               name allocation pass SetPackageNames;                     *)
(*   RegistrySpec arbitrary call sequences on RegisterUniquePackageName.   *)
(*                                                                         *)
(* Go strings are TLA+ strings; a byte of a string s is SubSeq(s, i, i).   *)
(***************************************************************************)
EXTENDS Integers, Sequences, FiniteSets, TLC

(***************************************************************************)
(* Bounds of the model.                                                    *)
(***************************************************************************)
\* number of files in one request
MaxFiles == 2
\* distinct clock readings (seconds) a run can observe
MaxClock == 1
\* registrations in one call sequence of the package name registry
MaxRegs == 3
\* variants of one oneof
MaxVariants == 2
\* bytes of one argument of unescape
MaxEscapeLen == 4
\* bytes of one argument of CamelCase
MaxIdentLen == 4
\* members of one enum whose default is looked for
MaxEnumValues == 2
\* fields of one message whose oneof wrapper types are named
MaxOneofFields == 2

Nil == "<nil>"

(***************************************************************************)
(* Byte and string helpers (package strings, strconv).                     *)
(***************************************************************************)
LowerChars == "abcdefghijklmnopqrstuvwxyz"
UpperChars == "ABCDEFGHIJKLMNOPQRSTUVWXYZ"
DigitChars == "0123456789"
\* the bytes that occur in the model's strings, in ASCII order
AsciiOrder == " \"',-./" \o DigitChars \o ";<=>" \o UpperChars \o "[]_" \o LowerChars \o "{}"

CharAt(s, i) == SubSeq(s, i, i)

MinOf(S) == CHOOSE x \in S : \A y \in S : x <= y

MaxOf(S) == CHOOSE x \in S : \A y \in S : y <= x

\* the 1-based positions of s at which sub occurs
Occurrences(s, sub) == {i \in 1..(Len(s) - Len(sub) + 1) : SubSeq(s, i, i + Len(sub) - 1) = sub}

\* strings.Index(s[from-1:], sub) shifted to a 1-based index of s; 0 when absent
IndexFrom(s, sub, from) ==
  LET hits == {i \in Occurrences(s, sub) : i >= from}
  IN IF hits = {} THEN 0 ELSE MinOf(hits)

Index(s, sub) == IndexFrom(s, sub, 1)

Contains(s, sub) == Index(s, sub) # 0

HasPrefix(s, p) == Len(p) <= Len(s) /\ SubSeq(s, 1, Len(p)) = p

HasSuffix(s, p) == Len(p) <= Len(s) /\ SubSeq(s, Len(s) - Len(p) + 1, Len(s)) = p

TrimPrefix(s, p) == IF HasPrefix(s, p) THEN SubSeq(s, Len(p) + 1, Len(s)) ELSE s

TrimSuffix(s, p) == IF HasSuffix(s, p) THEN SubSeq(s, 1, Len(s) - Len(p)) ELSE s

\* strings.LastIndex(s[:from], sub) as a 1-based index of s; 0 when absent
LastIndexFrom(s, sub, from) ==
  LET hits == {i \in Occurrences(s, sub) : i <= from}
  IN IF hits = {} THEN 0 ELSE MaxOf(hits)

LastIndex(s, sub) == LastIndexFrom(s, sub, Len(s))

isASCIILower(c) == Contains(LowerChars, c)

isASCIIUpper(c) == Contains(UpperChars, c)

isASCIIDigit(c) == Contains(DigitChars, c)

ToLowerChar(c) == IF isASCIIUpper(c) THEN CharAt(LowerChars, Index(UpperChars, c)) ELSE c

ToUpperChar(c) == IF isASCIILower(c) THEN CharAt(UpperChars, Index(LowerChars, c)) ELSE c

RECURSIVE ToLower(_)
\* strings.ToLower, byte by byte: the two halves of s, lowered
ToLower(s) ==
  IF s = "" THEN ""
  ELSE IF Len(s) = 1 THEN ToLowerChar(s)
  ELSE ToLower(SubSeq(s, 1, Len(s) \div 2)) \o ToLower(SubSeq(s, Len(s) \div 2 + 1, Len(s)))

\* unicode.IsLetter / IsDigit / '_' : the bytes strings.Title does not treat as separators
isWordChar(c) == isASCIILower(c) \/ isASCIIUpper(c) \/ isASCIIDigit(c) \/ c = "_"

RECURSIVE TitleFrom(_, _, _)
\* the bytes lo..hi of strings.Title(s): a byte that starts a word is upper-cased
TitleFrom(s, lo, hi) ==
  IF lo > hi THEN ""
  ELSE IF lo = hi
       THEN IF lo = 1 \/ ~isWordChar(CharAt(s, lo - 1)) THEN ToUpperChar(CharAt(s, lo))
            ELSE CharAt(s, lo)
       ELSE TitleFrom(s, lo, (lo + hi) \div 2) \o TitleFrom(s, (lo + hi) \div 2 + 1, hi)

\* strings.Title
Title(s) == TitleFrom(s, 1, Len(s))

RECURSIVE Split(_, _)
\* strings.Split(s, sep) for a non-empty separator
Split(s, sep) ==
  LET i == Index(s, sep)
  IN IF i = 0 THEN <<s>>
     ELSE <<SubSeq(s, 1, i - 1)>> \o Split(SubSeq(s, i + Len(sep), Len(s)), sep)

RECURSIVE Join(_, _)
\* strings.Join, path.Join on clean relative elements
Join(elems, sep) ==
  IF Len(elems) = 0 THEN ""
  ELSE IF Len(elems) = 1 THEN elems[1]
  ELSE elems[1] \o sep \o Join(Tail(elems), sep)

RECURSIVE NonEmpty(_)
NonEmpty(elems) ==
  IF Len(elems) = 0 THEN <<>>
  ELSE (IF elems[1] = "" THEN <<>> ELSE <<elems[1]>>) \o NonEmpty(Tail(elems))

\* path.Join: empty elements are ignored, the rest joined with a slash
PathJoin(elems) == Join(NonEmpty(elems), "/")

RECURSIVE ItoaNat(_)
ItoaNat(n) == IF n < 10 THEN CharAt(DigitChars, n + 1)
              ELSE ItoaNat(n \div 10) \o CharAt(DigitChars, (n % 10) + 1)

\* strconv.Itoa, fmt.Sprint of an integer
Itoa(n) == IF n < 0 THEN "-" \o ItoaNat(0 - n) ELSE ItoaNat(n)

\* strconv.Quote of a string without bytes that need escaping
Quote(s) == "\"" \o s \o "\""

RECURSIVE Spaces(_)
Spaces(n) == IF n <= 0 THEN "" ELSE " " \o Spaces(n - 1)

CharRank(c) == Index(AsciiOrder, c)

\* byte-wise a < b, the order of sort.Strings: decided by the first byte that differs
StrLess(a, b) ==
  LET differ == {i \in 1..Len(a) : i <= Len(b) /\ CharAt(a, i) # CharAt(b, i)}
  IN IF differ = {} THEN Len(a) < Len(b)
     ELSE CharRank(CharAt(a, MinOf(differ))) < CharRank(CharAt(b, MinOf(differ)))

RECURSIVE SortStrings(_)
\* sort.Strings applied to the keys of a map: the set S in ascending order
SortStrings(S) ==
  IF S = {} THEN <<>>
  ELSE LET m == CHOOSE x \in S : \A y \in S \ {x} : StrLess(x, y)
       IN <<m>> \o SortStrings(S \ {m})

Range(seq) == {seq[i] : i \in DOMAIN seq}

(***************************************************************************)
(* The raw descriptors of a request (descriptor.proto), as records.        *)
(* Package = "" stands for an unset package; Lead/Trail = Nil for an unset *)
(* comment.                                                                *)
(***************************************************************************)
Fld(name, number, type, label, typeName) ==
  [Name |-> name, Number |-> number, Type |-> type, Label |-> label, TypeName |-> typeName]

Msg(name, fields, nested, enums, mapEntry) ==
  [Name |-> name, Field |-> fields, NestedType |-> nested, EnumType |-> enums,
   MapEntry |-> mapEntry, Deprecated |-> FALSE]

EnumVal(name, number) == [Name |-> name, Number |-> number]

Enum(name, values) == [Name |-> name, Value |-> values, Deprecated |-> FALSE]

Loc(path, lead, trail) == [Path |-> path, Lead |-> lead, Trail |-> trail]

NoOptions == [present |-> FALSE, JavaPackage |-> "", JavaOuterClassname |-> "", Deprecated |-> FALSE]

JavaOptions(pkg, outer) ==
  [present |-> TRUE, JavaPackage |-> pkg, JavaOuterClassname |-> outer, Deprecated |-> FALSE]

File(name, package, options, messages, enums, locations) ==
  [Name |-> name, Package |-> package, Options |-> options, MessageType |-> messages,
   EnumType |-> enums, Location |-> locations]

(***************************************************************************)
(* The files the requests of the model are made of.                        *)
(***************************************************************************)
HelloMsg ==
  Msg("Hello", <<Fld("msg", 1, "TYPE_STRING", "LABEL_OPTIONAL", ""),
                 Fld("code", 2, "TYPE_INT32", "LABEL_OPTIONAL", "")>>, <<>>, <<>>, FALSE)

\* the scenario file: package demo, only message Hello, no file options
FileHello == File("hello.proto", "demo", NoOptions, <<HelloMsg>>, <<>>, <<>>)

\* the same file with the java options of the README example
FileHelloJava ==
  File("hello.proto", "demo", JavaOptions("com.acme.pb", "PbDemo"), <<HelloMsg>>, <<>>, <<>>)

\* nesting of depth three, a nested enum, a forward reference into q.proto
FileNest ==
  File("nest.proto", "p", JavaOptions("com.acme.pb", "PbNest"),
       <<Msg("A", <<Fld("b", 1, "TYPE_MESSAGE", "LABEL_OPTIONAL", ".p.A.B"),
                    Fld("rs", 2, "TYPE_MESSAGE", "LABEL_REPEATED", ".q.R"),
                    Fld("e", 3, "TYPE_ENUM", "LABEL_OPTIONAL", ".p.A.E")>>,
             <<Msg("B", <<Fld("raw_data", 1, "TYPE_BYTES", "LABEL_OPTIONAL", "")>>,
                   <<Msg("C", <<>>, <<>>, <<>>, FALSE)>>, <<>>, FALSE),
               Msg("D", <<>>, <<>>, <<>>, FALSE)>>,
             <<Enum("E", <<EnumVal("E_UNKNOWN", 0), EnumVal("E_ONE", 1)>>)>>, FALSE)>>,
       <<>>,
       <<Loc("4,0", " message A", Nil), Loc("4,0,2,0", " field b", " tail b")>>)

\* the file q.R lives in, with a top-level enum
FileDep ==
  File("q.proto", "q", JavaOptions("com.acme.pb", "PbQ"),
       <<Msg("R", <<Fld("c", 1, "TYPE_ENUM", "LABEL_REPEATED", ".q.Color")>>, <<>>, <<>>, FALSE)>>,
       <<Enum("Color", <<EnumVal("RED", 0), EnumVal("GREEN", 1)>>)>>,
       <<>>)

\* message M { map<string, int32> tags = 1; } as protoc describes it
FileMap ==
  File("map.proto", "m", JavaOptions("com.acme.pb", "PbMap"),
       <<Msg("M", <<Fld("tags", 1, "TYPE_MESSAGE", "LABEL_REPEATED", ".m.M.TagsEntry")>>,
             <<Msg("TagsEntry", <<Fld("key", 1, "TYPE_STRING", "LABEL_OPTIONAL", ""),
                                  Fld("value", 2, "TYPE_INT32", "LABEL_OPTIONAL", "")>>,
                   <<>>, <<>>, TRUE)>>,
             <<>>, FALSE)>>,
       <<>>, <<>>)

\* references that no file of any request defines
FileDangling ==
  File("bad.proto", "d", JavaOptions("com.acme.pb", "PbBad"),
       <<Msg("Ok", <<Fld("n", 1, "TYPE_INT64", "LABEL_REPEATED", "")>>, <<>>, <<>>, FALSE),
         Msg("X", <<Fld("ok", 1, "TYPE_MESSAGE", "LABEL_OPTIONAL", ".d.Ok")>>,
             <<Msg("Y", <<Fld("f", 1, "TYPE_MESSAGE", "LABEL_OPTIONAL", ".d.Missing"),
                          Fld("g", 2, "TYPE_ENUM", "LABEL_OPTIONAL", ".d.Gone")>>,
                   <<>>, <<>>, FALSE)>>,
             <<>>, FALSE)>>,
       <<Enum("Kind", <<EnumVal("K1", 1), EnumVal("K2", 2)>>)>>,
       <<>>)

Catalogue == <<FileHello, FileHelloJava, FileNest, FileDep, FileMap, FileDangling>>

\* the parameter strings protoc may pass
Parameters == {"", "vopkg=com.acme.vo", "cvtpkg=com.acme.cv,vopkg=.Com.Acme.VO.", "vopkg=.,cvtpkg=x"}

RECURSIVE SeqsOver(_, _)
\* the sequences of length at most n of distinct elements of S
SeqsOver(S, n) ==
  IF n = 0 THEN {<<>>}
  ELSE LET shorter == SeqsOver(S, n - 1)
       IN shorter \cup {Append(q, x) : q \in {r \in shorter : Len(r) = n - 1}, x \in S}

DistinctNames(files) ==
  \A i, j \in DOMAIN files : i # j => files[i].Name # files[j].Name

Distinct(seq) == \A i, j \in DOMAIN seq : i # j => seq[i] # seq[j]

IsSorted(q) == \A i, j \in DOMAIN q : i < j => q[i] < q[j]

\* request.proto_file: up to MaxFiles catalogue files with distinct names, in catalogue
\* order (nest.proto then precedes q.proto, the file its field types live in)
ProtoFiles ==
  {[i \in DOMAIN q |-> Catalogue[q[i]]] :
     q \in {r \in SeqsOver(DOMAIN Catalogue, MaxFiles) :
              IsSorted(r) /\ DistinctNames([i \in DOMAIN r |-> Catalogue[r[i]]])}}

\* request.file_to_generate: no name, every file of the request, one of them,
\* or one name the request has no file for
FilesToGenerate(files) ==
  {<<>>, [i \in DOMAIN files |-> files[i].Name], <<"none.proto">>}
  \cup {<<files[i].Name>> : i \in DOMAIN files}

Requests ==
  UNION {{[ProtoFile |-> fs, FileToGenerate |-> gen, Parameter |-> prm] :
            gen \in FilesToGenerate(fs), prm \in Parameters} : fs \in ProtoFiles}

(***************************************************************************)
(* Schema object model: Descriptor, EnumDescriptor, FileDescriptor.        *)
(* A *Descriptor is its 1-based position in the file's flat list desc;     *)
(* a nil parent is 0.                                                      *)
(***************************************************************************)
messagePath == 4
enumPath == 5
messageFieldPath == 2
messageMessagePath == 3
messageEnumPath == 4
enumValuePath == 2

GeneratorName == "protoc-gen-bean"
\* len(DefaultIndent)
DefaultIndent == 4

RECURSIVE TypeName(_, _)
\* Descriptor.TypeName: the names on the parent chain, outermost first
TypeName(descs, d) ==
  IF descs[d].parent = 0 THEN <<descs[d].proto.Name>>
  ELSE Append(TypeName(descs, descs[d].parent), descs[d].proto.Name)

\* EnumDescriptor.TypeName
EnumTypeName(descs, e) ==
  IF e.parent = 0 THEN <<e.proto.Name>>
  ELSE Append(TypeName(descs, e.parent), e.proto.Name)

dottedSlice(elem) == Join(elem, ".")

\* newDescriptor that gives every message the path of a top-level message
newDescriptorTopLevelPath(sl, desc, parent, file, index) ==
  [proto |-> desc, parent |-> parent, index |-> index,
   path |-> Itoa(messagePath) \o "," \o Itoa(index), group |-> FALSE,
   nested |-> <<>>, enums |-> <<>>]

newDescriptor(sl, desc, parent, file, index) ==
  LET path == IF parent = 0 THEN Itoa(messagePath) \o "," \o Itoa(index)
              ELSE sl[parent].path \o "," \o Itoa(messageMessagePath) \o "," \o Itoa(index)
      parts0 == IF parent = 0 THEN <<desc.Name>> ELSE Append(TypeName(sl, parent), desc.Name)
      parts == IF file.Package # "" THEN <<file.Package>> \o parts0 ELSE parts0
      exp == "." \o Join(parts, ".")
      group == /\ parent # 0
               /\ \E i \in DOMAIN sl[parent].proto.Field :
                     /\ sl[parent].proto.Field[i].Type = "TYPE_GROUP"
                     /\ sl[parent].proto.Field[i].TypeName = exp
  IN [proto |-> desc, parent |-> parent, index |-> index, path |-> path, group |-> group,
      nested |-> <<>>, enums |-> <<>>]

RECURSIVE wrapThisDescriptor(_, _, _, _, _)
RECURSIVE wrapNestedFrom(_, _, _, _, _)
\* the loop over desc.NestedType of wrapThisDescriptor, from its i-th element on
wrapNestedFrom(sl, nestedTypes, me, file, i) ==
  IF i > Len(nestedTypes) THEN sl
  ELSE wrapNestedFrom(wrapThisDescriptor(sl, nestedTypes[i], me, file, i - 1),
                      nestedTypes, me, file, i + 1)

wrapThisDescriptor(sl, desc, parent, file, index) ==
  LET sl1 == Append(sl, newDescriptor(sl, desc, parent, file, index))
      me == Len(sl1)
  IN wrapNestedFrom(sl1, desc.NestedType, me, file, 1)

RECURSIVE wrapDescriptorsFrom(_, _, _)
wrapDescriptorsFrom(sl, file, i) ==
  IF i > Len(file.MessageType) THEN sl
  ELSE wrapDescriptorsFrom(wrapThisDescriptor(sl, file.MessageType[i], 0, file, i - 1), file, i + 1)

wrapDescriptors(file) == wrapDescriptorsFrom(<<>>, file, 1)

newEnumDescriptor(descs, desc, parent, index) ==
  [proto |-> desc, parent |-> parent, index |-> index,
   path |-> IF parent = 0 THEN Itoa(enumPath) \o "," \o Itoa(index)
            ELSE descs[parent].path \o "," \o Itoa(messageEnumPath) \o "," \o Itoa(index)]

RECURSIVE wrapNestedEnumsFrom(_, _)
wrapNestedEnumsFrom(descs, d) ==
  IF d > Len(descs) THEN <<>>
  ELSE [i \in DOMAIN descs[d].proto.EnumType |->
          newEnumDescriptor(descs, descs[d].proto.EnumType[i], d, i - 1)]
       \o wrapNestedEnumsFrom(descs, d + 1)

wrapEnumDescriptors(file, descs) ==
  [i \in DOMAIN file.EnumType |-> newEnumDescriptor(descs, file.EnumType[i], 0, i - 1)]
  \o wrapNestedEnumsFrom(descs, 1)

RECURSIVE NestedOfFrom(_, _, _)
NestedOfFrom(descs, desc, j) ==
  IF j > Len(descs) THEN <<>>
  ELSE (IF descs[j].parent = desc THEN <<j>> ELSE <<>>) \o NestedOfFrom(descs, desc, j + 1)

RECURSIVE NestedOfSelfFrom(_, _, _)
NestedOfSelfFrom(descs, desc, j) ==
  IF j > Len(descs) THEN <<>>
  ELSE (IF descs[j].parent = desc THEN <<desc>> ELSE <<>>) \o NestedOfSelfFrom(descs, desc, j + 1)

\* the inner loop with desc in the place of nest in the append
NestedOfAppendsSelf(descs, desc) == NestedOfSelfFrom(descs, desc, 1)

\* the inner loop of buildNestedDescriptors: what is appended to desc.nested
NestedOf(descs, desc) == NestedOfFrom(descs, desc, 1)

FirstSuch(S) == CHOOSE i \in S : \A j \in S : i <= j

\* buildNestedDescriptors: the descriptors with nested filled, and the Fail message if any
buildNestedDescriptors(descs) ==
  LET built == [d \in DOMAIN descs |->
                  IF Len(descs[d].proto.NestedType) # 0
                  THEN [descs[d] EXCEPT !.nested = @ \o NestedOf(descs, d)]
                  ELSE descs[d]]
      bad == {d \in DOMAIN descs :
                /\ Len(descs[d].proto.NestedType) # 0
                /\ Len(built[d].nested) # Len(descs[d].proto.NestedType)}
  IN [descs |-> built,
      fail |-> IF bad = {} THEN Nil
               ELSE "internal error: nesting failure for " \o descs[FirstSuch(bad)].proto.Name]

RECURSIVE EnumsOfFrom(_, _, _)
EnumsOfFrom(enums, desc, j) ==
  IF j > Len(enums) THEN <<>>
  ELSE (IF enums[j].parent = desc THEN <<j>> ELSE <<>>) \o EnumsOfFrom(enums, desc, j + 1)

\* buildNestedEnums
buildNestedEnums(descs, enums) ==
  LET built == [d \in DOMAIN descs |->
                  IF Len(descs[d].proto.EnumType) # 0
                  THEN [descs[d] EXCEPT !.enums = @ \o EnumsOfFrom(enums, d, 1)]
                  ELSE descs[d]]
      bad == {d \in DOMAIN descs :
                /\ Len(descs[d].proto.EnumType) # 0
                /\ Len(built[d].enums) # Len(descs[d].proto.EnumType)}
  IN [descs |-> built,
      fail |-> IF bad = {} THEN Nil
               ELSE "internal error: enum nesting failure for " \o descs[FirstSuch(bad)].proto.Name]

\* extractComments: the locations that carry a leading comment, by path
extractComments(file) ==
  LET with == {i \in DOMAIN file.Location : file.Location[i].Lead # Nil}
      paths == {file.Location[i].Path : i \in with}
  IN [p \in paths |->
        file.Location[CHOOSE i \in with :
                        /\ file.Location[i].Path = p
                        /\ \A j \in with : file.Location[j].Path = p => j <= i]]

(***************************************************************************)
(* Name mangling and scalar typing (pkg/generator/helper.go).              *)
(***************************************************************************)
RECURSIVE CamelRun(_, _)
\* the index of the last byte of the lower-case run that follows position i
CamelRun(s, i) ==
  IF i + 1 <= Len(s) /\ isASCIILower(CharAt(s, i + 1)) THEN CamelRun(s, i + 1) ELSE i

RECURSIVE CamelLoop(_, _, _)
\* the for loop of CamelCase at the 1-based position i, t the bytes produced so far
CamelLoop(s, i, t) ==
  IF i > Len(s) THEN t
  ELSE LET c == CharAt(s, i)
       IN IF c = "_" /\ i + 1 <= Len(s) /\ isASCIILower(CharAt(s, i + 1))
          THEN CamelLoop(s, i + 1, t)
          ELSE IF isASCIIDigit(c) THEN CamelLoop(s, i + 1, t \o c)
          ELSE LET last == CamelRun(s, i)
               IN CamelLoop(s, last + 1, t \o ToUpperChar(c) \o SubSeq(s, i + 1, last))

\* CamelCase that looks at the first byte of s, not of t, before it lowers t[0]
CamelCaseTestsInput(s) ==
  IF s = "" THEN ""
  ELSE IF isASCIIUpper(CharAt(s, 1))
  THEN ToLowerChar(CharAt(CamelLoop(s, 1, ""), 1)) \o Tail(CamelLoop(s, 1, ""))
  ELSE CamelLoop(s, 1, "")

\* CamelCase: words capitalised, underscores before lower case dropped, first byte lowered
CamelCase(s) ==
  IF s = "" THEN ""
  ELSE LET t == CamelLoop(s, 1, "")
       IN ToLowerChar(CharAt(t, 1)) \o Tail(t)

isRepeated(field) == field.Label = "LABEL_REPEATED"

\* javaType with the boxed type for every 32-bit integer field
javaTypeBoxed(field) ==
  LET repeat == isRepeated(field)
      t == field.Type
  IN IF t = "TYPE_DOUBLE" THEN (IF repeat THEN "List<Double>" ELSE "double")
     ELSE IF t = "TYPE_FLOAT" THEN (IF repeat THEN "List<Float>" ELSE "float")
     ELSE IF t \in {"TYPE_INT64", "TYPE_UINT64", "TYPE_SFIXED64", "TYPE_SINT64", "TYPE_FIXED64"}
          THEN (IF repeat THEN "List<Long>" ELSE "long")
     ELSE IF t \in {"TYPE_INT32", "TYPE_UINT32", "TYPE_FIXED32", "TYPE_SFIXED32", "TYPE_SINT32"}
          THEN (IF repeat THEN "List<Integer>" ELSE "Integer")
     ELSE IF t = "TYPE_BOOL" THEN (IF repeat THEN "List<Boolean>" ELSE "boolean")
     ELSE IF t = "TYPE_STRING" THEN (IF repeat THEN "List<String>" ELSE "String")
     ELSE IF t = "TYPE_BYTES" THEN "byte[]"
     ELSE ""

\* javaType: the Java type of a scalar field, "" for message, enum and group fields
javaType(field) ==
  LET repeat == isRepeated(field)
      t == field.Type
  IN IF t = "TYPE_DOUBLE" THEN (IF repeat THEN "List<Double>" ELSE "double")
     ELSE IF t = "TYPE_FLOAT" THEN (IF repeat THEN "List<Float>" ELSE "float")
     ELSE IF t \in {"TYPE_INT64", "TYPE_UINT64", "TYPE_SFIXED64", "TYPE_SINT64", "TYPE_FIXED64"}
          THEN (IF repeat THEN "List<Long>" ELSE "long")
     ELSE IF t \in {"TYPE_INT32", "TYPE_UINT32", "TYPE_FIXED32", "TYPE_SFIXED32", "TYPE_SINT32"}
          THEN (IF repeat THEN "List<Integer>" ELSE "int")
     ELSE IF t = "TYPE_BOOL" THEN (IF repeat THEN "List<Boolean>" ELSE "boolean")
     ELSE IF t = "TYPE_STRING" THEN (IF repeat THEN "List<String>" ELSE "String")
     ELSE IF t = "TYPE_BYTES" THEN "byte[]"
     ELSE ""

javaFieldName(field) == CamelCase(field.Name)

RECURSIVE TrimLeftDots(_)
TrimLeftDots(s) == IF HasPrefix(s, ".") THEN TrimLeftDots(TrimPrefix(s, ".")) ELSE s

RECURSIVE TrimRightDots(_)
TrimRightDots(s) == IF HasSuffix(s, ".") THEN TrimRightDots(TrimSuffix(s, ".")) ELSE s

paramToJavaPackage(param) ==
  IF param = "" THEN "" ELSE TrimRightDots(TrimLeftDots(ToLower(param)))

\* javaConverterName: the converter class of a file
javaConverterName(file) ==
  LET raw == IF file.Options.present /\ file.Options.JavaOuterClassname # ""
             THEN file.Options.JavaOuterClassname
             ELSE LET parts == Split(file.Package, ".") IN parts[Len(parts)]
      cut == IF HasPrefix(ToLower(raw), "pb") THEN SubSeq(raw, 3, Len(raw)) ELSE raw
  IN Title(cut) \o "Pb2JavaBean"

\* FileDescriptor.javaPackageOption (pkg/generator): <<impPath, pkg, ok>>
javaPackageOption(file) ==
  IF file.Options.JavaPackage = "" THEN [impPath |-> "", pkg |-> "", ok |-> FALSE]
  ELSE [impPath |-> file.Options.JavaPackage, pkg |-> file.Options.JavaOuterClassname, ok |-> TRUE]

(***************************************************************************)
(* Generator.CommandLineParameters.                                        *)
(***************************************************************************)
MapPut(m, k, v) == [x \in DOMAIN m \cup {k} |-> IF x = k THEN v ELSE m[x]]

EmptyMap == [x \in {} |-> ""]

RECURSIVE ParamMapFrom(_, _, _)
\* the first loop: g.Param filled from the comma separated tokens
ParamMapFrom(tokens, i, m) ==
  IF i > Len(tokens) THEN m
  ELSE LET p == tokens[i]
           eq == Index(p, "=")
       IN ParamMapFrom(tokens, i + 1,
            IF eq = 0 THEN MapPut(m, p, "")
            ELSE MapPut(m, SubSeq(p, 1, eq - 1), SubSeq(p, eq + 1, Len(p))))

ParamMap(parameter) == ParamMapFrom(Split(parameter, ","), 1, EmptyMap)

RECURSIVE ParamSwitch(_, _, _, _)
\* the second loop, visiting the keys of g.Param in the order keys
ParamSwitch(m, keys, i, acc) ==
  IF i > Len(keys) THEN acc
  ELSE LET k == keys[i]
       IN ParamSwitch(m, keys, i + 1,
            IF k = "vopkg" THEN [acc EXCEPT !.ValueObjectPackage = paramToJavaPackage(m[k])]
            ELSE IF k = "cvtpkg" THEN [acc EXCEPT !.ConverterPackage = paramToJavaPackage(m[k])]
            ELSE acc)

\* the orders a range over a Go map with the keys S can take
MapOrders(S) == {q \in SeqsOver(S, Cardinality(S)) : Len(q) = Cardinality(S) /\ Distinct(q)}

\* CommandLineParameters without the test of g.ValueObjectPackage
CommandLineParametersLenient(parameter, keys) ==
  LET m == ParamMap(parameter)
      set == ParamSwitch(m, keys, 1, [ValueObjectPackage |-> "", ConverterPackage |-> ""])
  IN [ValueObjectPackage |-> set.ValueObjectPackage,
      ConverterPackage |-> IF set.ConverterPackage = ""
                           THEN set.ValueObjectPackage \o "." \o "converter"
                           ELSE set.ConverterPackage,
      fail |-> Nil]

\* CommandLineParameters with the map iterated in the order keys
CommandLineParameters(parameter, keys) ==
  LET m == ParamMap(parameter)
      set == ParamSwitch(m, keys, 1, [ValueObjectPackage |-> "", ConverterPackage |-> ""])
  IN IF set.ValueObjectPackage = ""
     THEN [ValueObjectPackage |-> "", ConverterPackage |-> set.ConverterPackage,
           fail |-> "invalid vo package, use --bean_out=vopkg=[package.of.vo], to set"]
     ELSE [ValueObjectPackage |-> set.ValueObjectPackage,
           ConverterPackage |-> IF set.ConverterPackage = ""
                                THEN set.ValueObjectPackage \o "." \o "converter"
                                ELSE set.ConverterPackage,
           fail |-> Nil]

(***************************************************************************)
(* Generator.WrapTypes and Generator.BuildTypeNameMap.                     *)
(* A *FileDescriptor is its 1-based position in g.allFiles.                *)
(***************************************************************************)
\* one iteration of the first loop of WrapTypes: the FileDescriptor of f, or the Fail message
WrapFile(f, ValueObjectPackage) ==
  LET nd == buildNestedDescriptors(wrapDescriptors(f))
      enum == wrapEnumDescriptors(f, nd.descs)
      ne == buildNestedEnums(nd.descs, enum)
  IN [fd |-> [proto |-> f,
              importPath |-> Join(<<ValueObjectPackage, ToLower(f.Package)>>, "."),
              desc |-> ne.descs, enum |-> enum, comments |-> extractComments(f)],
      fail |-> IF nd.fail # Nil THEN nd.fail ELSE ne.fail]

\* g.allFilesByName[fileName], 0 for nil: the last file of that name
FileByName(files, fileName) ==
  LET named == {i \in DOMAIN files : files[i].proto.Name = fileName}
  IN IF named = {} THEN 0 ELSE CHOOSE i \in named : \A j \in named : j <= i

RECURSIVE GenFilesFrom(_, _, _, _)
\* the last loop of WrapTypes
GenFilesFrom(files, names, i, acc) ==
  IF i > Len(names) THEN [genFiles |-> acc, fail |-> Nil]
  ELSE LET fd == FileByName(files, names[i])
       IN IF fd = 0 THEN [genFiles |-> acc, fail |-> "could not find file named " \o names[i]]
          ELSE GenFilesFrom(files, names, i + 1, Append(acc, fd))

RECURSIVE WrapFilesFrom(_, _, _, _)
\* what the first loop of WrapTypes does with the wrapped i-th file w
WrapNext(protoFiles, ValueObjectPackage, i, acc, w) ==
  IF w.fail # Nil THEN [allFiles |-> acc, fail |-> w.fail]
  ELSE WrapFilesFrom(protoFiles, ValueObjectPackage, i + 1, Append(acc, w.fd))

\* the first loop of WrapTypes from the i-th file on
WrapFilesFrom(protoFiles, ValueObjectPackage, i, acc) ==
  IF i > Len(protoFiles) THEN [allFiles |-> acc, fail |-> Nil]
  ELSE WrapNext(protoFiles, ValueObjectPackage, i, acc, WrapFile(protoFiles[i], ValueObjectPackage))

\* the last loop of WrapTypes, over the files w the first loop wrapped
WrapGenFiles(w, names) ==
  IF w.fail # Nil THEN [allFiles |-> w.allFiles, genFiles |-> <<>>, fail |-> w.fail]
  ELSE LET gen == GenFilesFrom(w.allFiles, names, 1, <<>>)
       IN [allFiles |-> w.allFiles, genFiles |-> gen.genFiles, fail |-> gen.fail]

\* WrapTypes: g.allFiles, g.genFiles and the first Fail message, Nil if none
WrapTypes(request, ValueObjectPackage) ==
  WrapGenFiles(WrapFilesFrom(request.ProtoFile, ValueObjectPackage, 1, <<>>), request.FileToGenerate)

\* an Object: the enum or message at position idx of file's enum or desc list
EnumObj(file, idx) == [kind |-> "enum", file |-> file, idx |-> idx]
DescObj(file, idx) == [kind |-> "desc", file |-> file, idx |-> idx]

\* Object.TypeName
ObjTypeName(files, obj) ==
  IF obj.kind = "desc" THEN TypeName(files[obj.file].desc, obj.idx)
  ELSE EnumTypeName(files[obj.file].desc, files[obj.file].enum[obj.idx])

\* the keys of one file in insertion order: all enums, then all messages
TypeNameEntries(files, f) ==
  LET dottedPkg == IF "." \o files[f].proto.Package # "." THEN "." \o files[f].proto.Package \o "."
                   ELSE "."
  IN [i \in DOMAIN files[f].enum |->
        [name |-> dottedPkg \o dottedSlice(ObjTypeName(files, EnumObj(f, i))), obj |-> EnumObj(f, i)]]
     \o [i \in DOMAIN files[f].desc |->
        [name |-> dottedPkg \o dottedSlice(ObjTypeName(files, DescObj(f, i))), obj |-> DescObj(f, i)]]

RECURSIVE AllTypeNameEntries(_, _)
AllTypeNameEntries(files, f) ==
  IF f > Len(files) THEN <<>> ELSE TypeNameEntries(files, f) \o AllTypeNameEntries(files, f + 1)

RECURSIVE PutAll(_, _, _)
\* g.typeNameToObject[name] = obj for the entries in order
PutAll(m, entries, i) ==
  IF i > Len(entries) THEN m ELSE PutAll(MapPut(m, entries[i].name, entries[i].obj), entries, i + 1)

\* BuildTypeNameMap
BuildTypeNameMap(files) == PutAll([x \in {} |-> EnumObj(0, 0)], AllTypeNameEntries(files, 1), 1)

(***************************************************************************)
(* The text sink: g.Buffer, g.indent, and the exit of Generator.Fail.      *)
(* buf holds one string per call of P, each ended by a newline in the      *)
(* Buffer; indent is len(g.indent); fail is the message of the Fail call   *)
(* that ended the process, after which nothing else happens.               *)
(***************************************************************************)
NewSink == [buf |-> <<>>, indent |-> 0, fail |-> Nil]

\* Generator.P (g.writeOutput is true whenever a populate function runs)
P(e, str) == IF e.fail # Nil THEN e ELSE [e EXCEPT !.buf = Append(@, Spaces(e.indent) \o str)]

\* Generator.In
In(e) == IF e.fail # Nil THEN e ELSE [e EXCEPT !.indent = @ + DefaultIndent]

\* Generator.Out
Out(e) == IF e.fail # Nil THEN e
          ELSE IF e.indent > 0 THEN [e EXCEPT !.indent = @ - DefaultIndent] ELSE e

\* Fail returning to its caller: the message is dropped and the run goes on
FailIgnored(e, msg) == e

\* Generator.Fail
Fail(e, msg) == IF e.fail # Nil THEN e ELSE [e EXCEPT !.fail = msg]

\* Generator.Reset of the embedded Buffer
Reset(e) == [e EXCEPT !.buf = <<>>]

\* P when cond holds: if cond { g.P(str) }
PIf(e, cond, str) == IF cond THEN P(e, str) ELSE e

\* the statements of straight-line code: g.P(str), g.In() and g.Out()
L(str) == [op |-> "P", str |-> str]
InS == [op |-> "In", str |-> ""]
OutS == [op |-> "Out", str |-> ""]

Exec(e, stmt) ==
  CASE stmt.op = "P" -> P(e, stmt.str)
    [] stmt.op = "In" -> In(e)
    [] stmt.op = "Out" -> Out(e)

RECURSIVE DoFrom(_, _, _, _)
\* the sink after the statements lo..hi ran in order: the first half, then the second
DoFrom(e, stmts, lo, hi) ==
  IF e.fail # Nil \/ lo > hi THEN e
  ELSE IF lo = hi THEN Exec(e, stmts[lo])
  ELSE DoFrom(DoFrom(e, stmts, lo, (lo + hi) \div 2), stmts, (lo + hi) \div 2 + 1, hi)

\* the sink after the statements ran in order
Do(e, stmts) == DoFrom(e, stmts, 1, Len(stmts))

\* the "//"-prefixed lines of a comment text, joined by newlines
CommentText(text) ==
  LET lines == Split(TrimSuffix(text, "\n"), "\n")
  IN Join([i \in DOMAIN lines |-> "//" \o lines[i]], "\n")

\* Generator.makeComments: Nil when there is no comment at path
makeComments(fd, path) ==
  IF path \notin DOMAIN fd.comments THEN Nil
  ELSE IF fd.comments[path].Lead = Nil THEN Nil
  ELSE CommentText(fd.comments[path].Lead)

\* Generator.tailingComments: Nil when there is none
tailingComments(fd, path) ==
  IF path \notin DOMAIN fd.comments THEN Nil
  ELSE IF fd.comments[path].Trail = Nil THEN Nil
  ELSE CommentText(fd.comments[path].Trail)

\* Generator.PrintComments
PrintComments(e, fd, path) ==
  IF makeComments(fd, path) # Nil THEN P(e, makeComments(fd, path)) ELSE e

\* the tail expression of populateField and populateEnum
TailOf(fd, path) == IF tailingComments(fd, path) = Nil THEN "" ELSE " " \o tailingComments(fd, path)

(***************************************************************************)
(* Construct generators of pkg/generator/template.go.                      *)
(* g is the Generator as the populate functions read it:                   *)
(*   [ValueObjectPackage, ConverterPackage, allFiles, typeNameToObject,    *)
(*    now, order], now being the reading of time.Now() and order the       *)
(*   direction in which this run's map ranges happen to iterate.           *)
(***************************************************************************)
deprecationComment == "// Deprecated: Do not use."

\* time.Now().Format(...): one text per second of the clock
TimeFormat(t) == "2018-03-13 Tue 19:54:" \o (IF t < 10 THEN "0" ELSE "") \o Itoa(t) \o " UTC+0800"

\* the bounds of int32
MaxInt32 == 2147483647
MinInt32 == (-2147483647) - 1

\* x - 1 in int32 arithmetic, which wraps
Dec32(x) == IF x = MinInt32 THEN MaxInt32 ELSE x - 1

\* the keys of a Go map in the order one range over it yields them
RangeKeys(S, order) ==
  LET asc == SortStrings(S)
  IN IF order = "fwd" THEN asc ELSE [i \in DOMAIN asc |-> asc[Len(asc) + 1 - i]]

\* the mutation of sortStrings that leaves the keys in iteration order
sortStringsSkipped(keys) == keys

\* sort.Strings(keys)
sortStrings(keys) == SortStrings(Range(keys))

getFullPathComponents(g, typeName) ==
  (IF g.ValueObjectPackage # "" THEN Split(g.ValueObjectPackage, ".") ELSE <<>>) \o typeName

DropLast(p) == IF Len(p) > 0 THEN SubSeq(p, 1, Len(p) - 1) ELSE p

descriptorPackagePath(g, f, d) ==
  Join(DropLast(getFullPathComponents(g, TypeName(g.allFiles[f].desc, d))), ".")

enumPackagePath(g, f, en) ==
  Join(DropLast(getFullPathComponents(g, EnumTypeName(g.allFiles[f].desc, g.allFiles[f].enum[en]))), ".")

populateHeaderComment(e, g, f) ==
  LET file == g.allFiles[f].proto
  IN Do(e, <<L(""),
             L("// Code generated by " \o GeneratorName \o ". DO NOT EDIT."),
             L("// " \o TimeFormat(g.now)),
             L("//"),
             L("//     " \o file.Name),
             L("//")>>
           \o (IF file.Options.Deprecated THEN <<L(deprecationComment)>> ELSE <<>>)
           \o <<L(""), L("")>>)

isDefaultName(name) ==
  LET low == ToLower(name)
  IN Contains(low, "default") \/ Contains(low, "unknow") \/ Contains(low, "invalid")

RECURSIVE EnumDefaultFrom(_, _, _)
\* the first loop of populateEnum from the i-th value on, defaultValue being v so far
EnumDefaultFrom(values, i, v) ==
  IF i > Len(values) THEN [addDefaultValue |-> TRUE, defaultName |-> "Unknown", defaultValue |-> v]
  ELSE IF isDefaultName(values[i].Name)
       THEN [addDefaultValue |-> FALSE, defaultName |-> values[i].Name, defaultValue |-> v]
       ELSE EnumDefaultFrom(values, i + 1,
                            IF values[i].Number <= v THEN Dec32(values[i].Number) ELSE v)

EnumDefault(values) == EnumDefaultFrom(values, 1, -1)

RECURSIVE EnumValueLines(_, _, _, _)
\* the second loop of populateEnum
EnumValueLines(e, fd, en, i) ==
  IF e.fail # Nil \/ i > Len(en.proto.Value) THEN e
  ELSE LET values == en.proto.Value
           etorPath == en.path \o "," \o Itoa(enumValuePath) \o "," \o Itoa(i - 1)
       IN EnumValueLines(P(PrintComments(e, fd, etorPath),
                            values[i].Name \o "(" \o Itoa(values[i].Number)
                            \o (IF i = Len(values) THEN ");" ELSE "),") \o TailOf(fd, etorPath)),
                         fd, en, i + 1)

\* populateEnum up to the package clause and the header of a root enum
EnumHead(e, g, f, enIdx) ==
  IF g.allFiles[f].enum[enIdx].parent = 0
  THEN populateHeaderComment(P(e, "package " \o enumPackagePath(g, f, enIdx) \o ";"), g, f)
  ELSE e

\* populateEnum from the deprecation comment to the default value, def being the
\* outcome of the first loop
EnumOpen(e, fd, en, def) ==
  Do(PrintComments(PIf(e, en.proto.Deprecated, deprecationComment), fd, en.path),
     <<L("public enum " \o en.proto.Name \o " {"), L(""), InS>>
     \o (IF def.addDefaultValue
         THEN <<L(def.defaultName \o "(" \o Itoa(def.defaultValue) \o "),")>>
         ELSE <<>>))

\* populateEnum after the values
EnumClose(e, en, def) ==
  LET name == en.proto.Name
  IN Do(e, <<L(""), L("public int code;"), L(""),
             L(name \o "(int code) { this.code = code; }"), L(""),
             L("/**"), L(" * @deprecated Use {@link #forNumber(int)} instead."), L(" */"),
             L("@java.lang.Deprecated"),
             L("public static " \o name \o " valueOf(int value) {"), InS,
             L("return forNumber(value);"), OutS,
             L("}"), L(""),
             L("public static " \o name \o " forNumber(int value) {"), InS,
             L("switch (value) {"), InS>>
           \o [i \in DOMAIN en.proto.Value |->
                 L("case " \o Itoa(en.proto.Value[i].Number) \o ": return "
                   \o en.proto.Value[i].Name \o ";")]
           \o <<L("default: return " \o def.defaultName \o ";"), OutS,
                L("}"), OutS,
                L("}"), OutS,
                L("}")>>)

populateEnum(e, g, f, enIdx) ==
  EnumClose(EnumValueLines(EnumOpen(EnumHead(e, g, f, enIdx), g.allFiles[f],
                                    g.allFiles[f].enum[enIdx],
                                    EnumDefault(g.allFiles[f].enum[enIdx].proto.Value)),
                           g.allFiles[f], g.allFiles[f].enum[enIdx], 1),
            g.allFiles[f].enum[enIdx], EnumDefault(g.allFiles[f].enum[enIdx].proto.Value))

\* getFieldTypeName: the rendered type of a message or enum field; ok is the map lookup
getFieldTypeName(g, field) ==
  IF field.TypeName \notin DOMAIN g.typeNameToObject
  THEN [ok |-> FALSE, name |-> "",
        fail |-> "unable to find object with type named, " \o field.TypeName]
  ELSE LET obj == g.typeNameToObject[field.TypeName]
           typeName == SubSeq(field.TypeName, 2, Len(field.TypeName))
           trimmed == TrimPrefix(typeName, g.allFiles[obj.file].proto.Package)
       IN [ok |-> TRUE, name |-> SubSeq(trimmed, 2, Len(trimmed)), fail |-> Nil]

NoImports == [sys |-> {}, usr |-> {}, fail |-> Nil]

RECURSIVE FieldImports(_, _, _, _)
\* the loop over msg.Field of extractImports
FieldImports(g, msg, i, acc) ==
  IF acc.fail # Nil \/ i > Len(msg.Field) THEN acc
  ELSE LET field == msg.Field[i]
       IN IF field.Type = "TYPE_BYTES"
          THEN FieldImports(g, msg, i + 1, [acc EXCEPT !.sys = @ \cup {"java.util.Arrays"}])
          ELSE IF field.Type \in {"TYPE_ENUM", "TYPE_MESSAGE"}
          THEN LET acc1 == IF isRepeated(field) THEN [acc EXCEPT !.sys = @ \cup {"java.util.List"}]
                           ELSE acc
                   tn == getFieldTypeName(g, field)
               IN IF ~tn.ok THEN [acc1 EXCEPT !.fail = tn.fail]
                  ELSE LET typeName == tn.name
                           importPkg == IF Index(typeName, ".") # 0 THEN Split(typeName, ".")[1]
                                        ELSE typeName
                           obj == g.typeNameToObject[field.TypeName]
                           full == Quote(g.allFiles[obj.file].importPath) \o "." \o importPkg
                       IN FieldImports(g, msg, i + 1, [acc1 EXCEPT !.usr = @ \cup {full}])
          ELSE FieldImports(g, msg, i + 1, acc)

RECURSIVE extractImports(_, _, _, _)
RECURSIVE NestedImports(_, _, _, _, _)
NestedImports(g, f, nested, i, acc) ==
  IF acc.fail # Nil \/ i > Len(nested) THEN acc
  ELSE NestedImports(g, f, nested, i + 1, extractImports(g, f, nested[i], acc))

\* extractImports: the keys put into sysImp and usrImp, or the Fail of the first bad lookup
extractImports(g, f, d, acc) ==
  LET desc == g.allFiles[f].desc[d]
      acc1 == NestedImports(g, f, desc.nested, 1, acc)
      acc2 == IF acc1.fail = Nil /\ Len(desc.proto.Field) # 0
              THEN [acc1 EXCEPT !.sys = @ \cup {"java.io.Serializable"}]
              ELSE acc1
  IN FieldImports(g, desc.proto, 1, acc2)

populateField(e, g, f, d, index) ==
  LET fd == g.allFiles[f]
      msg == fd.desc[d]
      field == msg.proto.Field[index + 1]
      tn == getFieldTypeName(g, field)
      ftorPath == msg.path \o "," \o Itoa(messageFieldPath) \o "," \o Itoa(index)
  IN IF field.Type \in {"TYPE_ENUM", "TYPE_MESSAGE"}
     THEN IF ~tn.ok THEN Fail(e, tn.fail)
          ELSE P(PrintComments(e, fd, ftorPath),
                 "public " \o (IF isRepeated(field) THEN "List<" \o tn.name \o ">" ELSE tn.name)
                 \o " " \o javaFieldName(field) \o ";" \o TailOf(fd, ftorPath))
     ELSE IF javaType(field) = "" THEN Fail(e, "unknown type for " \o field.Name)
          ELSE P(PrintComments(e, fd, ftorPath),
                 "public " \o javaType(field) \o " " \o javaFieldName(field) \o ";"
                 \o TailOf(fd, ftorPath))

\* one line of the loop of populateToString
ToStringLine(field, i) ==
  LET name == javaFieldName(field)
  IN "\"" \o (IF i # 0 THEN ", " ELSE "") \o name \o "="
     \o (IF field.Type = "TYPE_STRING" THEN "'" ELSE "")
     \o "\" + "
     \o (IF field.Type = "TYPE_BYTES" THEN "Arrays.toString(" \o name \o ")" ELSE name)
     \o (IF field.Type = "TYPE_STRING" THEN " + '\\''" ELSE "")
     \o " + "

\* populateToString with the last g.Out() left out
populateToStringOutTwice(e, msg) ==
  Do(e, <<L("@Override"), L("public String toString() {"), InS,
          L("return \"" \o msg.Name \o "{\" +"), InS, InS>>
        \o [i \in DOMAIN msg.Field |-> L(ToStringLine(msg.Field[i], i - 1))]
        \o <<L("\"}\";"), OutS, OutS, L("}")>>)

populateToString(e, msg) ==
  Do(e, <<L("@Override"), L("public String toString() {"), InS,
          L("return \"" \o msg.Name \o "{\" +"), InS, InS>>
        \o [i \in DOMAIN msg.Field |-> L(ToStringLine(msg.Field[i], i - 1))]
        \o <<L("\"}\";"), OutS, OutS, OutS, L("}")>>)

RECURSIVE PopulateFields(_, _, _, _, _)
PopulateFields(e, g, f, d, i) ==
  IF e.fail # Nil \/ i > Len(g.allFiles[f].desc[d].proto.Field) THEN e
  ELSE PopulateFields(populateField(e, g, f, d, i - 1), g, f, d, i + 1)

RECURSIVE PopulateNestedEnums(_, _, _, _, _)
PopulateNestedEnums(e, g, f, enums, i) ==
  IF e.fail # Nil \/ i > Len(enums) THEN e
  ELSE PopulateNestedEnums(populateEnum(P(e, ""), g, f, enums[i]), g, f, enums, i + 1)

\* one import per key and, when there is any, an empty line
ImportBlock(keys) ==
  IF Len(keys) > 0 THEN [i \in DOMAIN keys |-> L("import " \o keys[i] \o ";")] \o <<L("")>>
  ELSE <<>>

\* the import block of a root message: both key lists sorted before printing
ImportLines(e, g, thisPackage, imp) ==
  Do(e, (IF Cardinality(imp.usr) > 0
         THEN ImportBlock(SelectSeq(sortStrings(RangeKeys(imp.usr, g.order)),
                                    LAMBDA p : ~HasPrefix(p, thisPackage)))
         ELSE <<>>)
        \o (IF Cardinality(imp.sys) > 0
            THEN ImportBlock(sortStrings(RangeKeys(imp.sys, g.order)))
            ELSE <<>>))

\* the imports of a root message, imp being what extractImports returned
DescImports(e, g, thisPackage, imp) ==
  IF imp.fail # Nil THEN Fail(e, imp.fail) ELSE ImportLines(e, g, thisPackage, imp)

\* populateDescriptor up to the imports of a root message
DescHead(e, g, f, d, thisPackage) ==
  IF g.allFiles[f].desc[d].parent = 0
  THEN DescImports(populateHeaderComment(P(e, "package " \o thisPackage \o ";"), g, f),
                   g, thisPackage, extractImports(g, f, d, NoImports))
  ELSE e

\* populateDescriptor from the deprecation comment to the class line
DescOpen(e, fd, msg) ==
  In(P(PrintComments(PIf(e, msg.proto.Deprecated, deprecationComment), fd, msg.path),
       "public" \o (IF msg.parent = 0 THEN "" ELSE " static") \o " final "
       \o msg.proto.Name
       \o (IF Len(msg.proto.Field) = 0 THEN "" ELSE " implements Serializable")
       \o " {"))

\* populateDescriptor after the nested messages, without the toString method
DescCloseWithoutToString(e, msg) == P(Out(P(e, "")), "}")

\* populateDescriptor after the nested messages
DescClose(e, msg) ==
  P(Out(IF Len(msg.proto.Field) > 0 THEN populateToString(P(e, ""), msg.proto) ELSE P(e, "")),
    "}")

RECURSIVE populateDescriptor(_, _, _, _)
RECURSIVE PopulateNestedDescriptors(_, _, _, _, _)
PopulateNestedDescriptors(e, g, f, nested, i) ==
  IF e.fail # Nil \/ i > Len(nested) THEN e
  ELSE PopulateNestedDescriptors(populateDescriptor(P(e, ""), g, f, nested[i]), g, f, nested, i + 1)

populateDescriptor(e, g, f, d) ==
  LET fd == g.allFiles[f]
      msg == fd.desc[d]
  IN DescClose(
       PopulateNestedDescriptors(
         PopulateNestedEnums(
           PopulateFields(
             DescOpen(DescHead(e, g, f, d, descriptorPackagePath(g, f, d)), fd, msg),
             g, f, d, 1),
           g, f, msg.enums, 1),
         g, f, msg.nested, 1),
       msg)

(***************************************************************************)
(* Converter generation (pkg/generator/bean.go).                           *)
(***************************************************************************)
RootOf(typeName) == IF Len(typeName) > 1 THEN <<typeName[1]>> ELSE typeName

RECURSIVE ConverterFieldImports(_, _, _, _)
\* the loop over desc.Field of extractConverterImports; a repeated field ends it
ConverterFieldImports(g, msg, i, acc) ==
  IF acc.fail # Nil \/ i > Len(msg.Field) THEN acc
  ELSE LET field == msg.Field[i]
       IN IF isRepeated(field)
          THEN [acc EXCEPT !.sys = @ \cup {"java.util.ArrayList", "java.util.List"}]
          ELSE IF field.Type = "TYPE_ENUM"
          THEN IF field.TypeName \notin DOMAIN g.typeNameToObject
               THEN [acc EXCEPT !.fail = "cannot find object to type, " \o field.TypeName]
               ELSE LET enumObj == g.typeNameToObject[field.TypeName]
                        objPath == getFullPathComponents(g, RootOf(ObjTypeName(g.allFiles, enumObj)))
                    IN ConverterFieldImports(g, msg, i + 1,
                                             [acc EXCEPT !.usr = @ \cup {Join(objPath, ".")}])
          ELSE ConverterFieldImports(g, msg, i + 1, acc)

RECURSIVE ConverterDescImports(_, _, _, _)
ConverterDescImports(g, f, d, acc) ==
  IF acc.fail # Nil \/ d > Len(g.allFiles[f].desc) THEN acc
  ELSE LET p == getFullPathComponents(g, RootOf(TypeName(g.allFiles[f].desc, d)))
           acc1 == [acc EXCEPT !.usr = @ \cup {Join(p, ".")}]
       IN ConverterDescImports(g, f, d + 1,
                               ConverterFieldImports(g, g.allFiles[f].desc[d].proto, 1, acc1))

extractConverterImports(g, f) ==
  LET file == g.allFiles[f].proto
      usr0 == {"com.google.protobuf.InvalidProtocolBufferException"}
              \cup (IF file.Options.present
                    THEN {file.Options.JavaPackage \o "." \o file.Options.JavaOuterClassname}
                    ELSE {})
  IN ConverterDescImports(g, f, 1, [sys |-> {}, usr |-> usr0, fail |-> Nil])

\* the statements populateDescriptorConverter emits for one field whose name is
\* lower in lower camel case and upper in upper camel case
ConverterFieldStmts(g, field, varName, thisConverter, lower, upper) ==
  LET typeObj == g.typeNameToObject[field.TypeName]
      objName == ObjTypeName(g.allFiles, typeObj)
  IN IF field.Type = "TYPE_ENUM"
     THEN LET enumClass == Join(objName, ".")
          IN IF ~isRepeated(field)
             THEN <<L("entity." \o lower \o " = " \o enumClass \o ".forNumber("
                      \o varName \o ".get" \o Title(lower) \o "Value());")>>
             ELSE <<L("entity." \o lower \o " = new ArrayList<>();"),
                    L("for (int value : " \o varName \o ".get" \o upper \o "ValueList()) {"),
                    InS,
                    L("entity." \o lower \o ".add(" \o enumClass \o ".forNumber(value);"),
                    OutS,
                    L("}")>>
     ELSE IF field.Type = "TYPE_MESSAGE"
     THEN LET other == javaConverterName(g.allFiles[typeObj.file].proto)
              fieldConverter == IF other = thisConverter THEN "" ELSE other \o "."
              fieldConvertMethod == Join(objName, "")
          IN IF ~isRepeated(field)
             THEN <<L("if (" \o varName \o ".get" \o upper \o "() != null) {"),
                    InS,
                    L("entity." \o lower \o " = " \o fieldConverter \o "to"
                      \o fieldConvertMethod \o "(" \o varName \o ".get" \o upper
                      \o "().toByteArray()" \o ");"),
                    OutS,
                    L("}")>>
             ELSE <<L("entity." \o lower \o " = new ArrayList<>();"),
                    L("if (" \o varName \o ".get" \o upper \o "Count() > 0) {"),
                    InS,
                    L("for ("
                      \o Join(<<g.allFiles[typeObj.file].proto.Options.JavaOuterClassname>>
                              \o objName, ".")
                      \o " element : " \o varName \o ".get" \o upper \o "List()) {"),
                    InS,
                    L("entity." \o lower \o ".add(" \o fieldConverter \o "to"
                      \o fieldConvertMethod \o "(element.toByteArray());"),
                    OutS,
                    L("}"),
                    OutS,
                    L("}")>>
     ELSE <<L("entity." \o lower \o " = " \o varName \o ".get" \o upper \o "();")>>

\* one pass of the loop over desc.Field of populateDescriptorConverter
ConverterField(e, g, field, varName, thisConverter) ==
  IF field.Type \in {"TYPE_ENUM", "TYPE_MESSAGE"} /\ field.TypeName \notin DOMAIN g.typeNameToObject
  THEN Fail(e, "unable to find object for type, " \o field.TypeName)
  ELSE Do(e, ConverterFieldStmts(g, field, varName, thisConverter,
                                 CamelCase(field.Name), Title(CamelCase(field.Name))))

RECURSIVE ConverterFields(_, _, _, _, _, _)
ConverterFields(e, g, fields, i, varName, thisConverter) ==
  IF e.fail # Nil \/ i > Len(fields) THEN e
  ELSE ConverterFields(ConverterField(e, g, fields[i], varName, thisConverter),
                       g, fields, i + 1, varName, thisConverter)

\* the method populateDescriptorConverter emits once the java package is known
ConverterMethod(e, g, fields, typeName, funcName, pbClass, varName, thisConverter) ==
  Do(ConverterFields(
       Do(e, <<L("public static " \o typeName \o " to" \o funcName \o "([]byte data) {"), InS,
               L("try {"), InS,
               L(pbClass \o "." \o typeName \o " " \o varName \o " = " \o pbClass \o "."
                 \o typeName \o ".parseFrom(data);"),
               L(typeName \o " entity = new " \o typeName \o "();")>>),
       g, fields, 1, varName, thisConverter),
     <<L(""), L("return entity;"), OutS,
       L("} catch (InvalidProtocolBufferException e) {"), InS,
       L("e.printStackTrace();"), L("// SocketLog.e(e);"), OutS,
       L("}"), L(""), L("return null;"), OutS,
       L("}")>>)

populateDescriptorConverter(e, g, f, d, thisConverter) ==
  LET fd == g.allFiles[f]
      names == TypeName(fd.desc, d)
      opt == javaPackageOption(fd.proto)
  IN IF ~opt.ok
     THEN Fail(e, "cannot find java output class for, " \o fd.desc[d].proto.Name \o "  in, "
                  \o fd.proto.Name)
     ELSE ConverterMethod(e, g, fd.desc[d].proto.Field, Join(names, "."), Join(names, ""),
                          opt.pkg, CamelCase(Join(names, "")), thisConverter)

RECURSIVE ConverterNested(_, _, _, _, _, _)
ConverterNested(e, g, f, nested, i, javaClsName) ==
  IF e.fail # Nil \/ i > Len(nested) THEN e
  ELSE ConverterNested(populateDescriptorConverter(P(e, ""), g, f, nested[i], javaClsName),
                       g, f, nested, i + 1, javaClsName)

\* the converter of every message of file.desc, root or not
ConverterRootOrNested(e, g, f, d, javaClsName) ==
  populateDescriptorConverter(e, g, f, d, javaClsName)

\* the converter of a root message: if desc.parent == nil { ... }
ConverterRoot(e, g, f, d, javaClsName) ==
  IF g.allFiles[f].desc[d].parent = 0 THEN populateDescriptorConverter(e, g, f, d, javaClsName)
  ELSE e

RECURSIVE ConverterDescs(_, _, _, _, _)
\* the loop over file.desc of populatePbToBeanConverter
ConverterDescs(e, g, f, d, javaClsName) ==
  IF e.fail # Nil \/ d > Len(g.allFiles[f].desc) THEN e
  ELSE ConverterDescs(
         ConverterRoot(P(ConverterNested(e, g, f, g.allFiles[f].desc[d].nested, 1, javaClsName), ""),
                       g, f, d, javaClsName),
         g, f, d + 1, javaClsName)

\* populatePbToBeanConverter after the header, imp being what extractConverterImports returned
ConverterClass(e, g, f, javaClsName, imp) ==
  IF imp.fail # Nil THEN Fail(e, imp.fail)
  ELSE Do(ConverterDescs(
            Do(e, ImportBlock(sortStrings(RangeKeys(imp.usr, g.order)))
                  \o ImportBlock(sortStrings(RangeKeys(imp.sys, g.order)))
                  \o <<L("public static final " \o javaClsName \o " {"), InS>>),
            g, f, 1, javaClsName),
          <<OutS, L("}"), L("")>>)

populatePbToBeanConverter(e, g, f, javaClsName) ==
  ConverterClass(populateHeaderComment(P(e, "package " \o g.ConverterPackage \o ";"), g, f),
                 g, f, javaClsName, extractConverterImports(g, f))

(***************************************************************************)
(* Generator.GenerateAllFiles, generateBeans and generateConverters        *)
(* (pkg/generator/generator.go).                                           *)
(***************************************************************************)
\* GenerateAllFiles without the call of generateConverters
FileWorkNoConverters(files, f) ==
  LET rootEnums == SelectSeq([i \in DOMAIN files[f].enum |-> i],
                             LAMBDA i : files[f].enum[i].parent = 0)
      rootDescs == SelectSeq([i \in DOMAIN files[f].desc |-> i],
                             LAMBDA i : files[f].desc[i].parent = 0)
  IN [k \in DOMAIN rootEnums |-> [kind |-> "enum", file |-> f, idx |-> rootEnums[k]]]
     \o [k \in DOMAIN rootDescs |-> [kind |-> "desc", file |-> f, idx |-> rootDescs[k]]]

\* the artifacts generateBeans and generateConverters produce for file f, in order
FileWork(files, f) ==
  LET rootEnums == SelectSeq([i \in DOMAIN files[f].enum |-> i],
                             LAMBDA i : files[f].enum[i].parent = 0)
      rootDescs == SelectSeq([i \in DOMAIN files[f].desc |-> i],
                             LAMBDA i : files[f].desc[i].parent = 0)
  IN [k \in DOMAIN rootEnums |-> [kind |-> "enum", file |-> f, idx |-> rootEnums[k]]]
     \o [k \in DOMAIN rootDescs |-> [kind |-> "desc", file |-> f, idx |-> rootDescs[k]]]
     \o <<[kind |-> "conv", file |-> f, idx |-> 0]>>

RECURSIVE WorkFromAllFiles(_, _, _)
\* the loop of GenerateAllFiles without the test of g.writeOutput
WorkFromAllFiles(files, gen, f) ==
  IF f > Len(files) THEN <<>>
  ELSE FileWork(files, f) \o WorkFromAllFiles(files, gen, f + 1)

RECURSIVE WorkFrom(_, _, _)
\* the loop of GenerateAllFiles over g.allFiles from position f on
WorkFrom(files, gen, f) ==
  IF f > Len(files) THEN <<>>
  ELSE (IF f \in Range(gen) THEN FileWork(files, f) ELSE <<>>) \o WorkFrom(files, gen, f + 1)

\* the artifacts of one run of GenerateAllFiles, in the order they are produced
Work(files, gen) == WorkFrom(files, gen, 1)

\* the last element of fullPath replaced by name.java, joined by path.Join
ArtifactName(fullPath, name) == PathJoin(DropLast(fullPath) \o <<name \o ".java">>)

\* the buffer after one artifact and the response file made of it
Artifact(e, name) == [sink |-> e, Name |-> name, Content |-> e.buf]

\* one pass of the enum loop of generateBeans: the buffer and the response file
generateEnumBean(sink, g, f, en) ==
  LET enum == g.allFiles[f].enum[en]
      fullPath == getFullPathComponents(g, EnumTypeName(g.allFiles[f].desc, enum))
  IN Artifact(populateEnum(Reset(sink), g, f, en), ArtifactName(fullPath, enum.proto.Name))

\* one pass of the message loop of generateBeans
generateMessageBean(sink, g, f, d) ==
  LET fullPath == getFullPathComponents(g, TypeName(g.allFiles[f].desc, d))
  IN Artifact(populateDescriptor(Reset(sink), g, f, d),
              ArtifactName(fullPath, g.allFiles[f].desc[d].proto.Name))

\* generateConverters
generateConverters(sink, g, f) ==
  LET javaClsName == javaConverterName(g.allFiles[f].proto)
  IN Artifact(populatePbToBeanConverter(Reset(sink), g, f, javaClsName),
              PathJoin(Split(g.ConverterPackage, ".") \o <<javaClsName \o ".java">>))

\* proto.Marshal of the response: the error field, when set, and one entry per file
Marshal(resp) ==
  (IF resp.Error # Nil THEN <<[field |-> "error", value |-> resp.Error]>> ELSE <<>>)
  \o [i \in DOMAIN resp.File |->
        [field |-> "file", name |-> resp.File[i].Name, content |-> resp.File[i].Content]]

\* the line log.Printf writes for Generator.Fail and Generator.Error
FailLine(s) == GeneratorName \o ": error:" \o s
ErrorLine(err, msg) == GeneratorName \o ": error:" \o msg \o ":" \o err

(***************************************************************************)
(* The plugin process (cmd/protoc-gen-bean/main.go).                       *)
(*   data      the bytes main decodes: a request, or bytes that do not     *)
(*             decode                                                      *)
(*   pc        the position of main                                        *)
(*   Buffer    g.Buffer and g.indent                                       *)
(*   position  how many artifacts GenerateAllFiles has gone through        *)
(*   stdout    the chunks written to os.Stdout, stderr the log lines       *)
(*   now       the clock; run and firstOutput serve the comparison of two  *)
(*             invocations on the same data                                *)
(***************************************************************************)
VARIABLES data, pc, Request, ValueObjectPackage, ConverterPackage, allFiles, genFiles,
          typeNameToObject, Buffer, position, Response, stdout, stderr, exitStatus,
          now, run, firstOutput

(***************************************************************************)
(* The generator of the root main.go and the package name registries.      *)
(*   Param, ImportMap, voPackage, packageName, Pkg   fields of Generator   *)
(*   pkgNamesInUse, uniquePackageName   the globals of the root main.go    *)
(*   globalPackageNames                 the global of internal/generator   *)
(*   registered   the calls of RegisterUniquePackageName so far: the       *)
(*                candidate, the file, the names in use before the call    *)
(*                and the name returned                                    *)
(***************************************************************************)
VARIABLES Param, ImportMap, voPackage, packageName, Pkg, pkgNamesInUse, uniquePackageName,
          globalPackageNames, registered

(***************************************************************************)
(* The generator of internal/generator while it generates one file.        *)
(*   packageNames, usedPackageNames   fields of Generator                  *)
(***************************************************************************)
VARIABLES packageNames, usedPackageNames

internalVars == <<packageNames, usedPackageNames>>

(***************************************************************************)
(* A call of one function of the generator on its own.                     *)
(*   arg      the argument of the call                                     *)
(*   result   what the call returned, Nil before it returns                *)
(***************************************************************************)
VARIABLES arg, result

callVars == <<arg, result>>

legacyVars == <<Param, ImportMap, voPackage, packageName, Pkg, pkgNamesInUse,
                uniquePackageName, globalPackageNames, registered, packageNames,
                usedPackageNames, arg, result>>

\* the state only the shipped pipeline uses
pkgVars == <<ValueObjectPackage, ConverterPackage, Buffer, position, now, run, firstOutput>>

vars == <<data, pc, Request, ValueObjectPackage, ConverterPackage, allFiles, genFiles,
          typeNameToObject, Buffer, position, Response, stdout, stderr, exitStatus,
          now, run, firstOutput, Param, ImportMap, voPackage, packageName, Pkg,
          pkgNamesInUse, uniquePackageName, globalPackageNames, registered,
          packageNames, usedPackageNames, arg, result>>

EmptyRequest == [ProtoFile |-> <<>>, FileToGenerate |-> <<>>, Parameter |-> ""]

\* what main can be handed: every request of the catalogue, and undecodable bytes
Inputs == {[valid |-> TRUE, request |-> r] : r \in Requests}
          \cup {[valid |-> FALSE, request |-> EmptyRequest]}

MapOrder == {"fwd", "rev"}

\* generator.New
New ==
  /\ pc = "start"
  /\ Request = EmptyRequest
  /\ ValueObjectPackage = ""
  /\ ConverterPackage = ""
  /\ allFiles = <<>>
  /\ genFiles = <<>>
  /\ typeNameToObject = BuildTypeNameMap(<<>>)
  /\ Buffer = NewSink
  /\ position = 0
  /\ Response = [File |-> <<>>, Error |-> Nil]
  /\ stdout = <<>>
  /\ stderr = <<>>
  /\ exitStatus = 0

\* New of the root main.go, for the fields its Generator has in addition
LegacyNew ==
  /\ Param = EmptyMap
  /\ ImportMap = EmptyMap
  /\ voPackage = ""
  /\ packageName = ""
  /\ Pkg = EmptyMap

\* no function has been called on its own
NoCall ==
  /\ arg = Nil
  /\ result = Nil

\* the fields of Generator that generate allocates for a file
InternalNew ==
  /\ packageNames = EmptyMap
  /\ usedPackageNames = {}

\* the package level variables as the program starts
Globals ==
  /\ pkgNamesInUse = {}
  /\ uniquePackageName = EmptyMap
  /\ globalPackageNames = {"fmt", "math", "proto"}
  /\ registered = <<>>

Init ==
  /\ data \in Inputs
  /\ New
  /\ LegacyNew
  /\ Globals
  /\ InternalNew
  /\ NoCall
  /\ now = 0
  /\ run = 1
  /\ firstOutput = <<>>

\* os.Exit(1) after the log line
Exit(line) ==
  /\ pc' = "exited"
  /\ exitStatus' = 1
  /\ stderr' = Append(stderr, line)

\* the Generator as the populate functions read it at clock reading t
G(t, order) ==
  [ValueObjectPackage |-> ValueObjectPackage, ConverterPackage |-> ConverterPackage,
   allFiles |-> allFiles, typeNameToObject |-> typeNameToObject, now |-> t, order |-> order]

\* proto.Unmarshal(data, g.Request)
ParseInput ==
  /\ UNCHANGED legacyVars
  /\ pc = "start"
  /\ IF data.valid
     THEN /\ Request' = data.request
          /\ pc' = "parsed"
          /\ UNCHANGED <<stderr, exitStatus>>
     ELSE /\ Exit(ErrorLine("unexpected EOF", "parsing input proto"))
          /\ UNCHANGED Request
  /\ UNCHANGED <<data, ValueObjectPackage, ConverterPackage, allFiles, genFiles,
                 typeNameToObject, Buffer, position, Response, stdout, now, run, firstOutput>>

\* if len(g.Request.FileToGenerate) == 0 { g.Fail(...) }
CheckFileToGenerate ==
  /\ UNCHANGED legacyVars
  /\ pc = "parsed"
  /\ IF Len(Request.FileToGenerate) = 0
     THEN Exit(FailLine("no files to generate"))
     ELSE /\ pc' = "params"
          /\ UNCHANGED <<stderr, exitStatus>>
  /\ UNCHANGED <<data, Request, ValueObjectPackage, ConverterPackage, allFiles, genFiles,
                 typeNameToObject, Buffer, position, Response, stdout, now, run, firstOutput>>

\* g.CommandLineParameters(g.Request.GetParameter())
DoCommandLineParameters ==
  /\ UNCHANGED legacyVars
  /\ pc = "params"
  /\ \E keys \in MapOrders(DOMAIN ParamMap(Request.Parameter)) :
       LET r == CommandLineParameters(Request.Parameter, keys)
       IN /\ ValueObjectPackage' = r.ValueObjectPackage
          /\ ConverterPackage' = r.ConverterPackage
          /\ IF r.fail # Nil THEN Exit(FailLine(r.fail))
             ELSE /\ pc' = "wrap"
                  /\ UNCHANGED <<stderr, exitStatus>>
  /\ UNCHANGED <<data, Request, allFiles, genFiles, typeNameToObject, Buffer, position,
                 Response, stdout, now, run, firstOutput>>

\* what main does with the outcome r of WrapTypes
WrapTypesDone(r) ==
  /\ allFiles' = r.allFiles
  /\ genFiles' = r.genFiles
  /\ IF r.fail # Nil THEN Exit(FailLine(r.fail))
     ELSE /\ pc' = "map"
          /\ UNCHANGED <<stderr, exitStatus>>

\* g.WrapTypes()
DoWrapTypes ==
  /\ UNCHANGED legacyVars
  /\ pc = "wrap"
  /\ WrapTypesDone(WrapTypes(Request, ValueObjectPackage))
  /\ UNCHANGED <<data, Request, ValueObjectPackage, ConverterPackage, typeNameToObject,
                 Buffer, position, Response, stdout, now, run, firstOutput>>

\* g.BuildTypeNameMap()
DoBuildTypeNameMap ==
  /\ UNCHANGED legacyVars
  /\ pc = "map"
  /\ typeNameToObject' = BuildTypeNameMap(allFiles)
  /\ pc' = "gen"
  /\ UNCHANGED <<data, Request, ValueObjectPackage, ConverterPackage, allFiles, genFiles,
                 Buffer, position, Response, stdout, stderr, exitStatus, now, run,
                 firstOutput>>

\* the artifact GenerateAllFiles is about to produce
Item == Work(allFiles, genFiles)[position + 1]

RECURSIVE BufferString(_, _, _)
\* g.String(): the lines lo..hi of the buffer, each ended by a newline
BufferString(buf, lo, hi) ==
  IF lo > hi THEN ""
  ELSE IF lo = hi THEN buf[lo] \o "\n"
  ELSE BufferString(buf, lo, (lo + hi) \div 2) \o BufferString(buf, (lo + hi) \div 2 + 1, hi)

\* what follows the production of artifact a: Fail inside it ends the process,
\* otherwise the file is appended to g.Response.File; logged tells whether the
\* text was handed to log.Printf as well
Produced(a, t, logged) ==
  /\ now' = t
  /\ Buffer' = a.sink
  /\ IF a.sink.fail # Nil
     THEN /\ Exit(FailLine(a.sink.fail))
          /\ UNCHANGED <<position, Response>>
     ELSE /\ position' = position + 1
          /\ Response' = [Response EXCEPT !.File = Append(@, [Name |-> a.Name,
                                                                Content |-> a.Content])]
          /\ stderr' = IF logged THEN Append(stderr, "\n" \o BufferString(a.Content, 1, Len(a.Content)))
                       ELSE stderr
          /\ UNCHANGED <<pc, exitStatus>>
  /\ UNCHANGED <<data, Request, ValueObjectPackage, ConverterPackage, allFiles, genFiles,
                 typeNameToObject, stdout, run, firstOutput>>

\* generateBeans: one root enum
GenerateEnum ==
  /\ UNCHANGED legacyVars
  /\ pc = "gen"
  /\ position < Len(Work(allFiles, genFiles))
  /\ Item.kind = "enum"
  /\ \E t \in now..MaxClock, order \in MapOrder :
       Produced(generateEnumBean(Buffer, G(t, order), Item.file, Item.idx), t, FALSE)

\* generateBeans: one root message
GenerateMessage ==
  /\ UNCHANGED legacyVars
  /\ pc = "gen"
  /\ position < Len(Work(allFiles, genFiles))
  /\ Item.kind = "desc"
  /\ \E t \in now..MaxClock, order \in MapOrder :
       Produced(generateMessageBean(Buffer, G(t, order), Item.file, Item.idx), t, FALSE)

\* generateConverters, which also logs the text it produced
GenerateConverter ==
  /\ UNCHANGED legacyVars
  /\ pc = "gen"
  /\ position < Len(Work(allFiles, genFiles))
  /\ Item.kind = "conv"
  /\ \E t \in now..MaxClock, order \in MapOrder :
       Produced(generateConverters(Buffer, G(t, order), Item.file), t, TRUE)

\* proto.Marshal(g.Response) and os.Stdout.Write(data), the write succeeding
SendResults ==
  /\ UNCHANGED legacyVars
  /\ pc = "gen"
  /\ position = Len(Work(allFiles, genFiles))
  /\ stdout' = Append(stdout, Marshal(Response))
  /\ pc' = "done"
  /\ UNCHANGED <<data, Request, ValueObjectPackage, ConverterPackage, allFiles, genFiles,
                 typeNameToObject, Buffer, position, Response, stderr, exitStatus, now, run,
                 firstOutput>>

\* os.Stdout.Write returning an error after n of the entries went out
WriteFails ==
  /\ UNCHANGED legacyVars
  /\ pc = "gen"
  /\ position = Len(Work(allFiles, genFiles))
  /\ \E n \in {0, Len(Marshal(Response)) - 1} \cap Nat :
       stdout' = IF n = 0 THEN stdout ELSE Append(stdout, SubSeq(Marshal(Response), 1, n))
  /\ Exit(ErrorLine("write /dev/stdout: broken pipe", "failed to write output proto"))
  /\ UNCHANGED <<data, Request, ValueObjectPackage, ConverterPackage, allFiles, genFiles,
                 typeNameToObject, Buffer, position, Response, now, run, firstOutput>>

\* the plugin is invoked a second time on the same data, at a later time
Rerun ==
  /\ UNCHANGED legacyVars
  /\ pc = "done"
  /\ run = 1
  /\ run' = 2
  /\ firstOutput' = stdout[1]
  /\ pc' = "start"
  /\ Request' = EmptyRequest
  /\ ValueObjectPackage' = ""
  /\ ConverterPackage' = ""
  /\ allFiles' = <<>>
  /\ genFiles' = <<>>
  /\ typeNameToObject' = BuildTypeNameMap(<<>>)
  /\ Buffer' = NewSink
  /\ position' = 0
  /\ Response' = [File |-> <<>>, Error |-> Nil]
  /\ stdout' = <<>>
  /\ stderr' = <<>>
  /\ exitStatus' = 0
  /\ UNCHANGED <<data, now>>

Next ==
  \/ ParseInput
  \/ CheckFileToGenerate
  \/ DoCommandLineParameters
  \/ DoWrapTypes
  \/ DoBuildTypeNameMap
  \/ GenerateEnum
  \/ GenerateMessage
  \/ GenerateConverter
  \/ SendResults
  \/ WriteFails
  \/ Rerun

Spec == Init /\ [][Next]_vars

(***************************************************************************)
(* The generator of the root main.go: package names, bean file names.      *)
(* A registry is the pair of globals pkgNamesInUse (inUse) and             *)
(* uniquePackageName (unique, keyed by the position of the file in         *)
(* g.allFiles), with the log of the calls made on it.                      *)
(***************************************************************************)
\* unicode.IsLetter on the bytes of the model
isLetter(c) == isASCIILower(c) \/ isASCIIUpper(c)

badToDot(r) == IF isLetter(r) \/ isASCIIDigit(r) \/ r = "." THEN r ELSE "."

RECURSIVE MapBadToDotFrom(_, _, _)
\* the bytes lo..hi of strings.Map(badToDot, s)
MapBadToDotFrom(s, lo, hi) ==
  IF lo > hi THEN ""
  ELSE IF lo = hi THEN badToDot(CharAt(s, lo))
  ELSE MapBadToDotFrom(s, lo, (lo + hi) \div 2) \o MapBadToDotFrom(s, (lo + hi) \div 2 + 1, hi)

\* strings.Map(badToDot, pkg)
MapBadToDot(s) == MapBadToDotFrom(s, 1, Len(s))

\* the name after its last slash
AfterSlash(name) == SubSeq(name, LastIndex(name, "/") + 1, Len(name))

\* baseName: the last path element without its last dotted suffix
baseName(name) ==
  IF LastIndex(AfterSlash(name), ".") # 0
  THEN SubSeq(AfterSlash(name), 1, LastIndex(AfterSlash(name), ".") - 1)
  ELSE AfterSlash(name)

\* path.Ext: the suffix from the last dot of the last path element on
PathExt(name) ==
  IF LastIndex(AfterSlash(name), ".") # 0
  THEN SubSeq(AfterSlash(name), LastIndex(AfterSlash(name), "."), Len(AfterSlash(name)))
  ELSE ""

\* FileDescriptor.javaPackageName of the root main.go: <<name, explicit>>
javaPackageName(file) ==
  IF file.Options.JavaPackage # "" THEN [name |-> file.Options.JavaPackage, explicit |-> TRUE]
  ELSE IF file.Package # "" THEN [name |-> file.Package, explicit |-> FALSE]
  ELSE [name |-> baseName(file.Name), explicit |-> FALSE]

\* name without a .proto or .protodevel extension, with .java appended
JavaName(name) ==
  (IF PathExt(name) \in {".proto", ".protodevel"}
   THEN SubSeq(name, 1, Len(name) - Len(PathExt(name)))
   ELSE name) \o ".java"

\* Descriptor.BeanFileName and EnumDescriptor.BeanFileName for the type called name
BeanFileName(file, name) ==
  IF file.Options.JavaPackage # ""
  THEN PathJoin(Split(file.Options.JavaPackage, ".") \o <<AfterSlash(JavaName(name))>>)
  ELSE JavaName(name)

\* the second loop of CommandLineParameters of the root main.go
LegacyParameters(m) ==
  [voPackage |-> IF "vopackage" \in DOMAIN m THEN m["vopackage"] ELSE "",
   ImportMap |-> [k \in {SubSeq(x, 2, Len(x)) : x \in {y \in DOMAIN m : HasPrefix(y, "M")}}
                    |-> m["M" \o k]]]

NoRegistry == [inUse |-> {}, unique |-> EmptyMap, log |-> <<>>]

RECURSIVE NextFree(_, _, _, _)
\* for i, orig := 1, pkg; pkgNamesInUse[pkg]; i++ { pkg = orig + strconv.Itoa(i) }
NextFree(inUse, orig, i, pkg) ==
  IF pkg \in inUse THEN NextFree(inUse, orig, i + 1, orig \o Itoa(i)) ELSE pkg

\* the call that returns name without marking it as in use
InstalledNot(reg, registry, pkg, f, name) ==
  [inUse |-> reg.inUse,
   unique |-> IF f # 0 THEN MapPut(reg.unique, f, name) ELSE reg.unique,
   log |-> Append(reg.log, [registry |-> registry, pkg |-> pkg, f |-> f,
                            before |-> reg.inUse, name |-> name])]

\* the end of RegisterUniquePackageName: name is installed, remembered for the file
\* f when f is not nil (0), and returned
Installed(reg, registry, pkg, f, name) ==
  [inUse |-> reg.inUse \cup {name},
   unique |-> IF f # 0 THEN MapPut(reg.unique, f, name) ELSE reg.unique,
   log |-> Append(reg.log, [registry |-> registry, pkg |-> pkg, f |-> f,
                            before |-> reg.inUse, name |-> name])]

\* RegisterUniquePackageName of the root main.go
RegisterUniquePackageName(reg, pkg, f) ==
  Installed(reg, "main", pkg, f, NextFree(reg.inUse, MapBadToDot(pkg), 1, MapBadToDot(pkg)))

\* cleanPackageName of internal/generator, whose body is commented out but for the conversion
cleanPackageName(name) == name

\* RegisterUniquePackageName of internal/generator: the file is unused
RegisterUniquePackageNameInternal(reg, pkg) ==
  Installed(reg, "internal", pkg, 0,
            NextFree(reg.inUse, cleanPackageName(pkg), 1, cleanPackageName(pkg)))

\* the name the last call returned
Returned(reg) == reg.log[Len(reg.log)].name

RECURSIVE ExplicitLoop(_, _, _, _)
\* the loop of SetPackageNames that looks for an explicit java_package option
ExplicitLoop(files, gen, i, acc) ==
  IF acc.fail # Nil \/ i > Len(gen) THEN acc
  ELSE LET this == javaPackageName(files[gen[i]].proto)
       IN IF ~this.explicit THEN ExplicitLoop(files, gen, i + 1, acc)
          ELSE IF ~acc.explicit
          THEN ExplicitLoop(files, gen, i + 1, [acc EXCEPT !.pkg = this.name, !.explicit = TRUE])
          ELSE IF this.name # acc.pkg
          THEN [acc EXCEPT !.fail = "inconsistent package names: " \o this.name \o " " \o acc.pkg]
          ELSE ExplicitLoop(files, gen, i + 1, acc)

\* the loop that compares the implicit package names when no file has the option
ImplicitLoop(files, gen, acc) ==
  IF acc.fail # Nil \/ acc.explicit THEN acc
  ELSE LET bad == {i \in DOMAIN gen : javaPackageName(files[gen[i]].proto).name # acc.pkg}
       IN IF bad = {} THEN acc
          ELSE [acc EXCEPT !.fail = "inconsistent package names: "
                                    \o javaPackageName(files[gen[MinOf(bad)]].proto).name
                                    \o " " \o acc.pkg]

\* the package name of the run, or the Fail of the consistency checks
PackageOfRun(files, gen) ==
  ImplicitLoop(files, gen,
    ExplicitLoop(files, gen, 1,
                 [pkg |-> javaPackageName(files[gen[1]].proto).name,
                  explicit |-> javaPackageName(files[gen[1]].proto).explicit,
                  fail |-> Nil]))

\* g.packageName = RegisterUniquePackageName(pkg, g.genFiles[0])
RegisterPrimary(reg, pkg, gen) == RegisterUniquePackageName(reg, pkg, gen[1])

\* the three calls that fill g.Pkg, in the order of the map literal
RegisterSupport(reg) ==
  RegisterUniquePackageName(
    RegisterUniquePackageName(RegisterUniquePackageName(reg, "fmt", 0), "math", 0), "proto", 0)

RECURSIVE RegisterAllFiles(_, _, _, _, _)
\* the loop AllFiles from the i-th file on
RegisterAllFiles(reg, files, gen, primary, i) ==
  IF i > Len(files) THEN reg
  ELSE IF i \in Range(gen)
  THEN RegisterAllFiles([reg EXCEPT !.unique = MapPut(@, i, primary)],
                        files, gen, primary, i + 1)
  ELSE RegisterAllFiles(
         RegisterUniquePackageName(reg,
                                   IF files[i].proto.Package = ""
                                   THEN baseName(files[i].proto.Name)
                                   ELSE files[i].proto.Package,
                                   i),
         files, gen, primary, i + 1)

\* the loop AllFiles, entered with the name registered for the package of the run
RegisterDependencies(reg, files, gen) ==
  RegisterAllFiles(reg, files, gen, reg.unique[gen[1]], 1)

\* the registrations with the support packages ahead of the package of the run
RegisterAllSupportFirst(reg, pkg, files, gen) ==
  RegisterDependencies(RegisterPrimary(RegisterSupport(reg), pkg, gen), files, gen)

\* the registrations of SetPackageNames once the package pkg of the run is known
RegisterAll(reg, pkg, files, gen) ==
  RegisterDependencies(RegisterSupport(RegisterPrimary(reg, pkg, gen)), files, gen)

\* what SetPackageNames leaves, chosen being the outcome of the consistency checks
NamesSet(reg, files, gen, chosen) ==
  IF chosen.fail # Nil THEN [reg |-> reg, fail |-> chosen.fail]
  ELSE [reg |-> RegisterAll(reg, chosen.pkg, files, gen), fail |-> Nil]

\* SetPackageNames of the root main.go
SetPackageNames(reg, files, gen) == NamesSet(reg, files, gen, PackageOfRun(files, gen))

\* the FileDescriptor of the root main.go has no importPath
LegacyFile(fd) ==
  [proto |-> fd.proto, desc |-> fd.desc, enum |-> fd.enum, comments |-> fd.comments]

\* WrapTypes of the root main.go: the same walk over the request
LegacyFiles(w) ==
  [allFiles |-> [i \in DOMAIN w.allFiles |-> LegacyFile(w.allFiles[i])],
   genFiles |-> w.genFiles, fail |-> w.fail]

LegacyWrapTypes(request) == LegacyFiles(WrapTypes(request, ""))

\* the response files GenerateAllBeans appends for one file: its enums, then its messages
BeansOfFile(fd) ==
  [i \in DOMAIN fd.enum |->
     [Name |-> BeanFileName(fd.proto, fd.enum[i].proto.Name), Content |-> "enums"]]
  \o [i \in DOMAIN fd.desc |->
     [Name |-> BeanFileName(fd.proto, fd.desc[i].proto.Name), Content |-> "messages"]]

RECURSIVE GenerateAllBeans(_, _)
\* GenerateAllBeans from the i-th file of g.allFiles on
GenerateAllBeans(files, i) ==
  IF i > Len(files) THEN <<>> ELSE BeansOfFile(files[i]) \o GenerateAllBeans(files, i + 1)

\* the conversion routines of one file: one per message that is not nested
ConverterRoutines(fd) ==
  [k \in DOMAIN SelectSeq(fd.desc, LAMBDA d : d.parent = 0) |->
     "to" \o SelectSeq(fd.desc, LAMBDA d : d.parent = 0)[k].proto.Name]

RECURSIVE GenerateAllConverters(_, _)
\* GenerateAllConverters, which the root main.go calls and no file of its generator
\* defines: the second pass over the resolved graph, one converter per file with messages
GenerateAllConverters(files, i) ==
  IF i > Len(files) THEN <<>>
  ELSE (IF Len(files[i].desc) = 0 THEN <<>>
        ELSE <<[Name |-> BeanFileName(files[i].proto, baseName(files[i].proto.Name) \o "Converter"),
                Content |-> ConverterRoutines(files[i])]>>)
       \o GenerateAllConverters(files, i + 1)

(***************************************************************************)
(* The process of the root main.go (LegacySpec). pc names the last step    *)
(* main has completed.                                                     *)
(***************************************************************************)
\* a second file of package demo
FileMore ==
  File("more.proto", "demo", NoOptions,
       <<Msg("More", <<Fld("hello", 1, "TYPE_MESSAGE", "LABEL_OPTIONAL", ".demo.Hello")>>,
             <<>>, <<>>, FALSE)>>,
       <<>>, <<>>)

\* a file whose package is the name of a support package
FileFmt ==
  File("fmt.proto", "fmt", NoOptions,
       <<Msg("Verb", <<Fld("flag", 1, "TYPE_BOOL", "LABEL_OPTIONAL", "")>>, <<>>, <<>>, FALSE)>>,
       <<>>, <<>>)

\* a file without a package clause, named with a byte that is no letter
FileBare ==
  File("dir/my-pkg.proto", "", NoOptions, <<>>,
       <<Enum("Mode", <<EnumVal("OFF", 0), EnumVal("ON", 1)>>)>>, <<>>)

LegacyCatalogue == <<FileHello, FileHelloJava, FileMore, FileFmt, FileBare, FileNest, FileDep>>

LegacyParameterStrings == {"", "vopackage=com.acme.vo", "Mhello.proto=x/y,vopackage=vo"}

LegacyProtoFiles ==
  {[i \in DOMAIN q |-> LegacyCatalogue[q[i]]] :
     q \in {r \in SeqsOver(DOMAIN LegacyCatalogue, MaxFiles) :
              IsSorted(r) /\ DistinctNames([i \in DOMAIN r |-> LegacyCatalogue[r[i]]])}}

LegacyRequests ==
  UNION {{[ProtoFile |-> fs, FileToGenerate |-> gen, Parameter |-> prm] :
            gen \in FilesToGenerate(fs), prm \in LegacyParameterStrings} : fs \in LegacyProtoFiles}

\* what the standard input can hold
LegacyInputs == {[valid |-> TRUE, request |-> r] : r \in LegacyRequests}
                \cup {[valid |-> FALSE, request |-> EmptyRequest]}

LegacyInit ==
  /\ data \in LegacyInputs
  /\ New
  /\ LegacyNew
  /\ Globals
  /\ InternalNew
  /\ NoCall
  /\ now = 0
  /\ run = 1
  /\ firstOutput = <<>>

\* data, err = ioutil.ReadAll(os.Stdin)
LegacyReadAll ==
  /\ pc = "start"
  /\ \E ok \in BOOLEAN :
       IF ok THEN /\ pc' = "read"
                  /\ UNCHANGED <<stderr, exitStatus>>
       ELSE Exit(ErrorLine("read /dev/stdin: input/output error", "reading input"))
  /\ UNCHANGED <<data, Request, allFiles, genFiles, typeNameToObject, Response, stdout>>
  /\ UNCHANGED pkgVars
  /\ UNCHANGED legacyVars

\* proto.Unmarshal(data, g.Request)
LegacyParseInput ==
  /\ pc = "read"
  /\ IF data.valid
     THEN /\ Request' = data.request
          /\ pc' = "unmarshalled"
          /\ UNCHANGED <<stderr, exitStatus>>
     ELSE /\ Exit(ErrorLine("unexpected EOF", "parsing input proto"))
          /\ UNCHANGED Request
  /\ UNCHANGED <<data, allFiles, genFiles, typeNameToObject, Response, stdout>>
  /\ UNCHANGED pkgVars
  /\ UNCHANGED legacyVars

\* if len(g.Request.FileToGenerate) == 0 { g.Fail(...) }
LegacyCheckFileToGenerate ==
  /\ pc = "unmarshalled"
  /\ IF Len(Request.FileToGenerate) = 0
     THEN Exit(FailLine("no files to generate"))
     ELSE /\ pc' = "checked"
          /\ UNCHANGED <<stderr, exitStatus>>
  /\ UNCHANGED <<data, Request, allFiles, genFiles, typeNameToObject, Response, stdout>>
  /\ UNCHANGED pkgVars
  /\ UNCHANGED legacyVars

\* g.CommandLineParameters(g.Request.GetParameter())
LegacyCommandLineParameters ==
  /\ pc = "checked"
  /\ Param' = ParamMap(Request.Parameter)
  /\ ImportMap' = LegacyParameters(ParamMap(Request.Parameter)).ImportMap
  /\ voPackage' = LegacyParameters(ParamMap(Request.Parameter)).voPackage
  /\ pc' = "parameters"
  /\ UNCHANGED <<data, Request, allFiles, genFiles, typeNameToObject, Response, stdout,
                 stderr, exitStatus>>
  /\ UNCHANGED pkgVars
  /\ UNCHANGED <<packageName, Pkg, pkgNamesInUse, uniquePackageName, globalPackageNames,
                 registered>>
  /\ UNCHANGED internalVars
  /\ UNCHANGED callVars

\* what main does with the outcome r of WrapTypes
LegacyWrapTypesDone(r) ==
  /\ allFiles' = r.allFiles
  /\ genFiles' = r.genFiles
  /\ IF r.fail # Nil THEN Exit(FailLine(r.fail))
     ELSE /\ pc' = "wrapped"
          /\ UNCHANGED <<stderr, exitStatus>>

\* g.WrapTypes()
LegacyWrapTypesStep ==
  /\ pc = "parameters"
  /\ LegacyWrapTypesDone(LegacyWrapTypes(Request))
  /\ UNCHANGED <<data, Request, typeNameToObject, Response, stdout>>
  /\ UNCHANGED pkgVars
  /\ UNCHANGED legacyVars

\* the name a support package was registered under
SupportName(log, n) == log[CHOOSE i \in DOMAIN log : log[i].f = 0 /\ log[i].pkg = n].name

\* what main does with the outcome r of SetPackageNames
SetPackageNamesDone(r) ==
  /\ pkgNamesInUse' = r.reg.inUse
  /\ uniquePackageName' = r.reg.unique
  /\ registered' = r.reg.log
  /\ IF r.fail # Nil
     THEN /\ Exit(FailLine(r.fail))
          /\ UNCHANGED <<packageName, Pkg>>
     ELSE /\ packageName' = r.reg.unique[genFiles[1]]
          /\ Pkg' = [n \in {"fmt", "math", "proto"} |-> SupportName(r.reg.log, n)]
          /\ pc' = "named"
          /\ UNCHANGED <<stderr, exitStatus>>

\* g.SetPackageNames()
LegacySetPackageNames ==
  /\ pc = "wrapped"
  /\ SetPackageNamesDone(SetPackageNames([inUse |-> pkgNamesInUse, unique |-> uniquePackageName,
                                          log |-> registered], allFiles, genFiles))
  /\ UNCHANGED <<data, Request, allFiles, genFiles, typeNameToObject, Response, stdout>>
  /\ UNCHANGED pkgVars
  /\ UNCHANGED <<Param, ImportMap, voPackage, globalPackageNames>>
  /\ UNCHANGED internalVars
  /\ UNCHANGED callVars

\* the step that goes on without building the map
LegacyBuildTypeNameMapSkipped ==
  /\ pc = "named"
  /\ pc' = "mapped"
  /\ UNCHANGED <<data, Request, allFiles, genFiles, typeNameToObject, Response, stdout,
                 stderr, exitStatus>>
  /\ UNCHANGED pkgVars
  /\ UNCHANGED legacyVars

\* g.BuildTypeNameMap()
LegacyBuildTypeNameMap ==
  /\ pc = "named"
  /\ typeNameToObject' = BuildTypeNameMap(allFiles)
  /\ pc' = "mapped"
  /\ UNCHANGED <<data, Request, allFiles, genFiles, Response, stdout, stderr, exitStatus>>
  /\ UNCHANGED pkgVars
  /\ UNCHANGED legacyVars

\* g.GenerateAllBeans()
LegacyGenerateAllBeans ==
  /\ pc = "mapped"
  /\ Response' = [Response EXCEPT !.File = @ \o GenerateAllBeans(allFiles, 1)]
  /\ pc' = "beans"
  /\ UNCHANGED <<data, Request, allFiles, genFiles, typeNameToObject, stdout, stderr,
                 exitStatus>>
  /\ UNCHANGED pkgVars
  /\ UNCHANGED legacyVars

\* g.GenerateAllConverters()
LegacyGenerateAllConverters ==
  /\ pc = "beans"
  /\ Response' = [Response EXCEPT !.File = @ \o GenerateAllConverters(allFiles, 1)]
  /\ pc' = "converters"
  /\ UNCHANGED <<data, Request, allFiles, genFiles, typeNameToObject, stdout, stderr,
                 exitStatus>>
  /\ UNCHANGED pkgVars
  /\ UNCHANGED legacyVars

\* proto.Marshal(g.Response) and os.Stdout.Write(data), the write succeeding
LegacySendResults ==
  /\ pc = "converters"
  /\ stdout' = Append(stdout, Marshal(Response))
  /\ pc' = "done"
  /\ UNCHANGED <<data, Request, allFiles, genFiles, typeNameToObject, Response, stderr,
                 exitStatus>>
  /\ UNCHANGED pkgVars
  /\ UNCHANGED legacyVars

\* os.Stdout.Write returning an error after n of the entries went out
LegacyWriteFails ==
  /\ pc = "converters"
  /\ \E n \in {0, Len(Marshal(Response)) - 1} \cap Nat :
       stdout' = IF n = 0 THEN stdout ELSE Append(stdout, SubSeq(Marshal(Response), 1, n))
  /\ Exit(ErrorLine("write /dev/stdout: broken pipe", "failed to write output proto"))
  /\ UNCHANGED <<data, Request, allFiles, genFiles, typeNameToObject, Response>>
  /\ UNCHANGED pkgVars
  /\ UNCHANGED legacyVars

LegacyNext ==
  \/ LegacyReadAll
  \/ LegacyParseInput
  \/ LegacyCheckFileToGenerate
  \/ LegacyCommandLineParameters
  \/ LegacyWrapTypesStep
  \/ LegacySetPackageNames
  \/ LegacyBuildTypeNameMap
  \/ LegacyGenerateAllBeans
  \/ LegacyGenerateAllConverters
  \/ LegacySendResults
  \/ LegacyWriteFails

LegacySpec == LegacyInit /\ [][LegacyNext]_vars

(***************************************************************************)
(* Callers of the two registries (RegistrySpec): any sequence of at most   *)
(* MaxRegs calls of RegisterUniquePackageName, of either package, in one   *)
(* process.                                                                *)
(***************************************************************************)
\* the candidate names of the calls
Candidates == {"foo", "foo1", "fmt", "a_b"}

\* the files of the calls: nil (0) or one file
RegistryFiles == {0, 1}

RegistryInit ==
  /\ data = [valid |-> FALSE, request |-> EmptyRequest]
  /\ New
  /\ LegacyNew
  /\ Globals
  /\ InternalNew
  /\ NoCall
  /\ now = 0
  /\ run = 1
  /\ firstOutput = <<>>

\* the globals of the root main.go after a call that left reg
MainRegistryLeft(reg) ==
  /\ pkgNamesInUse' = reg.inUse
  /\ uniquePackageName' = reg.unique
  /\ registered' = reg.log

\* a call of RegisterUniquePackageName of the root main.go
RegisterMain ==
  /\ Len(registered) < MaxRegs
  /\ \E pkg \in Candidates, f \in RegistryFiles :
       MainRegistryLeft(RegisterUniquePackageName(
                          [inUse |-> pkgNamesInUse, unique |-> uniquePackageName,
                           log |-> registered], pkg, f))
  /\ UNCHANGED <<data, pc, Request, allFiles, genFiles, typeNameToObject, Response, stdout,
                 stderr, exitStatus>>
  /\ UNCHANGED pkgVars
  /\ UNCHANGED <<Param, ImportMap, voPackage, packageName, Pkg, globalPackageNames>>
  /\ UNCHANGED internalVars
  /\ UNCHANGED callVars

\* the global of internal/generator after a call that left reg
InternalRegistryLeft(reg) ==
  /\ globalPackageNames' = reg.inUse
  /\ registered' = reg.log

\* a call of RegisterUniquePackageName of internal/generator
RegisterInternal ==
  /\ Len(registered) < MaxRegs
  /\ \E pkg \in Candidates :
       InternalRegistryLeft(RegisterUniquePackageNameInternal(
                              [inUse |-> globalPackageNames, unique |-> EmptyMap,
                               log |-> registered], pkg))
  /\ UNCHANGED <<data, pc, Request, allFiles, genFiles, typeNameToObject, Response, stdout,
                 stderr, exitStatus>>
  /\ UNCHANGED pkgVars
  /\ UNCHANGED <<Param, ImportMap, voPackage, packageName, Pkg, pkgNamesInUse,
                 uniquePackageName>>
  /\ UNCHANGED internalVars
  /\ UNCHANGED callVars

RegistryNext ==
  \/ RegisterMain
  \/ RegisterInternal

RegistrySpec == RegistryInit /\ [][RegistryNext]_vars

(***************************************************************************)
(* Properties of the shipped pipeline (Spec).                              *)
(***************************************************************************)
\* descs with the k-th descriptor detached from its parent
Orphaned(descs, k) == [descs EXCEPT ![k].parent = 0]

\* C1: every message of every file WrapTypes has kept has as many attached
\* nested children as it declares nested types, all of them distinct and each
\* with that message as its parent; and buildNestedDescriptors reports the
\* nesting failure, which ends the run, for every descriptor list in which a
\* declared child is not attached to its parent.
NestedCountMatches ==
  /\ \A f \in DOMAIN allFiles : \A d \in DOMAIN allFiles[f].desc :
       /\ Len(allFiles[f].desc[d].nested) = Len(allFiles[f].desc[d].proto.NestedType)
       /\ Cardinality(Range(allFiles[f].desc[d].nested))
            = Len(allFiles[f].desc[d].proto.NestedType)
       /\ \A k \in DOMAIN allFiles[f].desc[d].nested :
            allFiles[f].desc[allFiles[f].desc[d].nested[k]].parent = d
  /\ \A c \in DOMAIN Catalogue : \A k \in DOMAIN wrapDescriptors(Catalogue[c]) :
       wrapDescriptors(Catalogue[c])[k].parent # 0
         => buildNestedDescriptors(Orphaned(wrapDescriptors(Catalogue[c]), k)).fail # Nil

\* the graph is built and holds a message with two nested types
NestedCountWitness ==
  /\ pc = "gen"
  /\ \E f \in DOMAIN allFiles : \E d \in DOMAIN allFiles[f].desc :
       /\ Len(allFiles[f].desc[d].proto.NestedType) = 2
       /\ Len(allFiles[f].desc[d].nested) = 2

RECURSIVE ArtifactCount(_, _)
\* the artifacts a request asks for: for each file to generate one per top-level
\* enum, one per top-level message and one converter
ArtifactCount(request, i) ==
  IF i > Len(request.ProtoFile) THEN 0
  ELSE (IF request.ProtoFile[i].Name \in Range(request.FileToGenerate)
        THEN Len(request.ProtoFile[i].EnumType) + Len(request.ProtoFile[i].MessageType) + 1
        ELSE 0)
       + ArtifactCount(request, i + 1)

\* the last log line reports the failed write of the response
WriteFailed ==
  /\ stderr # <<>>
  /\ stderr[Len(stderr)]
       = ErrorLine("write /dev/stdout: broken pipe", "failed to write output proto")

\* the log lines written by Fail and Error
ErrorLines == {i \in DOMAIN stderr : HasPrefix(stderr[i], GeneratorName \o ": error:")}

\* C2: a run that completes has produced every artifact of every file to
\* generate and has written the response exactly once; a run that aborts has
\* logged exactly one fatal condition and, unless that condition is the failure
\* of the write itself, has written nothing to the output stream; nothing is
\* ever written before all artifacts exist.
AllOrNothing ==
  /\ pc = "done" => /\ exitStatus = 0
                    /\ Len(Response.File) = ArtifactCount(Request, 1)
                    /\ stdout = <<Marshal(Response)>>
  /\ pc = "exited" => /\ exitStatus = 1
                      /\ Cardinality(ErrorLines) = 1
                      /\ ~WriteFailed => stdout = <<>>
  /\ pc \notin {"done", "exited"} => stdout = <<>>
  /\ stdout # <<>> => Len(Response.File) = ArtifactCount(Request, 1)

\* an abort during emission, after artifacts have been appended to the response
AllOrNothingWitness ==
  /\ pc = "exited"
  /\ Len(Response.File) > 0
  /\ Len(Response.File) < ArtifactCount(Request, 1)
  /\ stdout = <<>>

\* C3: whenever the process has ended on a fatal condition, the error field of
\* the response is set and the exit status is not zero.
ErrorFieldSet == pc = "exited" => (Response.Error # Nil /\ exitStatus # 0)

RECURSIVE RootAncestor(_, _)
\* the top-level message a message is nested in
RootAncestor(descs, d) ==
  IF descs[d].parent = 0 THEN d ELSE RootAncestor(descs, descs[d].parent)

\* the messages whose fields artifact it is generated from
ScopeOf(it) ==
  IF it.kind = "desc"
  THEN {d \in DOMAIN allFiles[it.file].desc : RootAncestor(allFiles[it.file].desc, d) = it.idx}
  ELSE IF it.kind = "conv" THEN DOMAIN allFiles[it.file].desc
  ELSE {}

\* the message- or enum-typed fields in the scope of it whose type name is no key of the map
Unresolved(it) ==
  {fld \in UNION {Range(allFiles[it.file].desc[d].proto.Field) : d \in ScopeOf(it)} :
     /\ fld.Type \in {"TYPE_ENUM", "TYPE_MESSAGE"}
     /\ fld.TypeName \notin DOMAIN typeNameToObject}

\* the last element of a dotted type name
SimpleName(typeName) == SubSeq(typeName, LastIndex(typeName, ".") + 1, Len(typeName))

\* line declares, imports or converts field fld
Mentions(line, fld) ==
  \/ Contains(line, " " \o javaFieldName(fld) \o ";")
  \/ Contains(line, "entity." \o javaFieldName(fld) \o " ")
  \/ Contains(line, "entity." \o javaFieldName(fld) \o ".")
  \/ Contains(line, SimpleName(fld.TypeName))

\* C4: no artifact of the response is generated from a field whose type name is
\* no key of the type map; the step that meets such a field ends the process
\* with status 1, appends nothing to the response, writes nothing to the output
\* stream and leaves no line in the buffer that declares, imports or converts
\* the field.
ResolveOrAbort ==
  /\ [](\A k \in DOMAIN Response.File : Unresolved(Work(allFiles, genFiles)[k]) = {})
  /\ [][(pc = "gen" /\ position < Len(Work(allFiles, genFiles)) /\ Unresolved(Item) # {})
          => /\ pc' = "exited"
             /\ exitStatus' = 1
             /\ Response' = Response
             /\ stdout' = <<>>
             /\ \A fld \in Unresolved(Item) : \A i \in DOMAIN Buffer'.buf :
                  ~Mentions(Buffer'.buf[i], fld)]_vars

\* the run has ended on the failed lookup of a type name
ResolveOrAbortWitness ==
  /\ pc = "exited"
  /\ stderr # <<>>
  /\ HasPrefix(stderr[Len(stderr)], FailLine("unable to find object with type named, "))
  /\ Len(Response.File) > 0

\* C6: the second run on the same input writes the bytes the first run wrote.
SameOutputTwice == (run = 2 /\ pc = "done") => stdout[1] = firstOutput

\* field fld of file f is a map field: its type is a map-entry message
IsMapField(fld) ==
  /\ fld.Type = "TYPE_MESSAGE"
  /\ fld.TypeName \in DOMAIN typeNameToObject
  /\ typeNameToObject[fld.TypeName].kind = "desc"
  /\ allFiles[typeNameToObject[fld.TypeName].file].desc[typeNameToObject[fld.TypeName].idx]
       .proto.MapEntry

\* C9: in every value-object artifact of the response, a map<string, int32>
\* field is declared as Map<String, Integer> and no type is declared for its
\* map-entry message.
MapFieldsAsMaps ==
  \A k \in DOMAIN Response.File :
    Work(allFiles, genFiles)[k].kind = "desc" =>
      \A fld \in Range(allFiles[Work(allFiles, genFiles)[k].file]
                         .desc[Work(allFiles, genFiles)[k].idx].proto.Field) :
        IsMapField(fld) =>
          /\ \E i \in DOMAIN Response.File[k].Content :
               Contains(Response.File[k].Content[i],
                        "Map<String, Integer> " \o javaFieldName(fld) \o ";")
          /\ \A i \in DOMAIN Response.File[k].Content :
               ~Contains(Response.File[k].Content[i],
                         " final " \o SimpleName(fld.TypeName) \o " ")

\* the scenario request: one file, to be generated, in package demo, holding only Hello
HelloRequest(r) ==
  /\ Len(r.ProtoFile) = 1
  /\ r.ProtoFile[1].Package = "demo"
  /\ r.ProtoFile[1].MessageType = <<HelloMsg>>
  /\ r.ProtoFile[1].EnumType = <<>>
  /\ r.FileToGenerate = <<r.ProtoFile[1].Name>>

\* some line of the artifact is str after its indentation
HasLine(file, str) ==
  \E i \in DOMAIN file.Content : \E n \in 0..Len(file.Content[i]) :
    file.Content[i] = Spaces(n) \o str

\* the response of the scenario: the value object, then the converter
HelloResponse ==
  /\ Len(Response.File) = 2
  /\ HasSuffix(Response.File[1].Name, "Hello.java")
  /\ HasLine(Response.File[1], "public String msg;")
  /\ HasLine(Response.File[1], "public int code;")
  /\ HasSuffix(Response.File[2].Name, "Pb2JavaBean.java")
  /\ \E i \in DOMAIN Response.File[2].Content :
       Contains(Response.File[2].Content[i], "public static Hello toHello(")
  /\ HasLine(Response.File[2], "entity.msg = hello.getMsg();")
  /\ HasLine(Response.File[2], "entity.code = hello.getCode();")

\* the vopkg parameter names a package
HasValueObjectPackage(parameter) ==
  /\ "vopkg" \in DOMAIN ParamMap(parameter)
  /\ paramToJavaPackage(ParamMap(parameter)["vopkg"]) # ""

AllocationFinished ==
  /\ packageName # ""
  /\ Len(registered) = 4 + Cardinality(DOMAIN allFiles \ Range(genFiles))

Sanitised(r) == IF r.registry = "main" THEN MapBadToDot(r.pkg) ELSE cleanPackageName(r.pkg)

\* the calls made so far on the registry of r
SameRegistry(r) == {i \in DOMAIN registered : registered[i].registry = r.registry}

\* the calls before the i-th on the same registry with the same candidate
EarlierSame(i) ==
  {j \in SameRegistry(registered[i]) : j < i /\ registered[j].pkg = registered[i].pkg}

\* C7 as stated: the names a registry has returned are pairwise distinct, the
\* first call for a package returns the package unchanged and the second call for
\* it returns the package extended by a number.
FirstUnchangedSecondSuffixed ==
  \A i \in DOMAIN registered :
    /\ \A j \in SameRegistry(registered[i]) : j # i => registered[j].name # registered[i].name
    /\ EarlierSame(i) = {} => registered[i].name = registered[i].pkg
    /\ Cardinality(EarlierSame(i)) = 1
         => \E n \in 1..(2 * MaxRegs + 3) :
              registered[i].name = registered[i].pkg \o Itoa(n)

\* C7: the names a registry has returned are pairwise distinct; a call returns
\* its candidate, as the registry converts it, exactly when that name is not yet
\* claimed, and otherwise the converted candidate extended by the least number
\* from 1 on that gives a name not yet claimed; so of two calls for the same
\* package the second never returns the name of the first.
DistinctNamesReturned ==
  \A i \in DOMAIN registered :
    /\ \A j \in SameRegistry(registered[i]) : j # i => registered[j].name # registered[i].name
    /\ registered[i].name \notin registered[i].before
    /\ Sanitised(registered[i]) \notin registered[i].before
         => registered[i].name = Sanitised(registered[i])
    /\ Sanitised(registered[i]) \in registered[i].before
         => \E n \in 1..(Cardinality(registered[i].before) + 1) :
              /\ registered[i].name = Sanitised(registered[i]) \o Itoa(n)
              /\ \A m \in 1..(n - 1) :
                   Sanitised(registered[i]) \o Itoa(m) \in registered[i].before
    /\ \A j \in EarlierSame(i) :
         /\ registered[i].name # registered[j].name
         /\ HasPrefix(registered[i].name, Sanitised(registered[i]))
         /\ Len(registered[i].name) > Len(Sanitised(registered[i]))

\* two files of package foo have registered with the registry of the root main.go:
\* the first is foo, the second foo1
DistinctNamesWitness ==
  \E i, j \in DOMAIN registered :
    /\ i < j
    /\ registered[i].registry = "main" /\ registered[j].registry = "main"
    /\ registered[i].f # 0 /\ registered[j].f # 0
    /\ registered[i].pkg = "foo" /\ registered[j].pkg = "foo"
    /\ registered[i].name = "foo" /\ registered[j].name = "foo1"

\* C8: in the process of the root main.go the first call on the registry is the
\* one for the first file to generate, made while no name is claimed; it returns
\* the package of the run without a suffix, every file to generate has that name,
\* no later call, for a dependency or a support package, returns it, and the name
\* recorded for the run stays the one that call returned.
PrimaryRegisteredFirst ==
  registered # <<>> =>
    /\ registered[1].f = genFiles[1]
    /\ registered[1].before = {}
    /\ registered[1].pkg = PackageOfRun(allFiles, genFiles).pkg
    /\ registered[1].name = MapBadToDot(registered[1].pkg)
    /\ \A g \in Range(genFiles) \cap DOMAIN uniquePackageName :
         uniquePackageName[g] = registered[1].name
    /\ \A i \in DOMAIN registered :
         i > 1 => /\ registered[i].name # registered[1].name
                  /\ registered[i].f \notin Range(genFiles)
    /\ pc \in {"named", "mapped", "beans", "converters", "done"}
         => /\ packageName = registered[1].name
            /\ \A g \in Range(genFiles) : uniquePackageName[g] = packageName

\* a completed run in which a dependency or a support package asked for the name
\* of the package of the run and was given another
PrimaryRegisteredFirstWitness ==
  /\ pc = "done"
  /\ \E i \in DOMAIN registered :
       /\ i > 1
       /\ MapBadToDot(registered[i].pkg) = packageName
       /\ registered[i].name = packageName \o "1"

(***************************************************************************)
(* Properties of the shipped pipeline (Spec): the files to generate and    *)
(* the parameters.                                                         *)
(***************************************************************************)
RECURSIVE ExpectedArtifacts(_, _)
\* what the request asks for, read off the raw descriptors: for each file of the
\* descriptor set that is listed in file_to_generate, in the order of the set, its
\* top-level enums, its top-level messages and one converter
ExpectedArtifacts(request, i) ==
  IF i > Len(request.ProtoFile) THEN <<>>
  ELSE (IF request.ProtoFile[i].Name \in Range(request.FileToGenerate)
        THEN [k \in DOMAIN request.ProtoFile[i].EnumType |->
                [kind |-> "type", name |-> request.ProtoFile[i].EnumType[k].Name]]
             \o [k \in DOMAIN request.ProtoFile[i].MessageType |->
                   [kind |-> "type", name |-> request.ProtoFile[i].MessageType[k].Name]]
             \o <<[kind |-> "conv", name |-> ""]>>
        ELSE <<>>)
       \o ExpectedArtifacts(request, i + 1)

Supplied(parameter, key) ==
  IF key \in DOMAIN ParamMap(parameter) THEN paramToJavaPackage(ParamMap(parameter)[key]) ELSE ""

\* the log holds the configuration error of CommandLineParameters and nothing else
ConfigurationError ==
  stderr = <<FailLine("invalid vo package, use --bean_out=vopkg=[package.of.vo], to set")>>

FileTwin ==
  File("twin.proto", "demo", JavaOptions("com.acme.pb", "PbTwin"),
       <<Msg("Hello", <<Fld("flag", 1, "TYPE_BOOL", "LABEL_OPTIONAL", "")>>, <<>>, <<>>, FALSE),
         Msg("User", <<Fld("hello", 1, "TYPE_MESSAGE", "LABEL_OPTIONAL", ".demo.Hello")>>,
             <<>>, <<>>, FALSE)>>,
       <<>>, <<>>)

TypeMapCatalogue == <<FileHelloJava, FileTwin, FileDep>>

TypeMapProtoFiles ==
  {[i \in DOMAIN q |-> TypeMapCatalogue[q[i]]] :
     q \in {r \in SeqsOver(DOMAIN TypeMapCatalogue, MaxFiles) : Distinct(r)}}

TypeMapRequests ==
  UNION {{[ProtoFile |-> fs, FileToGenerate |-> gen, Parameter |-> prm] :
            gen \in FilesToGenerate(fs), prm \in {"", "vopkg=com.acme.vo"}} :
         fs \in TypeMapProtoFiles}

TypeMapInit ==
  /\ data \in {[valid |-> TRUE, request |-> r] : r \in TypeMapRequests}
              \cup {[valid |-> FALSE, request |-> EmptyRequest]}
  /\ New
  /\ LegacyNew
  /\ Globals
  /\ InternalNew
  /\ NoCall
  /\ now = 0
  /\ run = 1
  /\ firstOutput = <<>>

TypeMapSpec == TypeMapInit /\ [][Next]_vars

\* the positions at which the loops of BuildTypeNameMap meet the key
Insertions(files, key) ==
  {i \in DOMAIN AllTypeNameEntries(files, 1) : AllTypeNameEntries(files, 1)[i].name = key}

\* C13: every key of the type map is bound to the node that was inserted first
\* under it.
FirstInsertWins ==
  \A key \in DOMAIN typeNameToObject :
    typeNameToObject[key]
      = AllTypeNameEntries(allFiles, 1)[MinOf(Insertions(allFiles, key))].obj

(***************************************************************************)
(* Properties of the shipped pipeline (Spec): type references.             *)
(***************************************************************************)
\* the message- or enum-typed fields in the scope of it whose type name is a key of the map
TypeReferences(it) ==
  {fld \in UNION {Range(allFiles[it.file].desc[d].proto.Field) : d \in ScopeOf(it)} :
     /\ fld.Type \in {"TYPE_ENUM", "TYPE_MESSAGE"}
     /\ fld.TypeName \in DOMAIN typeNameToObject}

\* the top-level message obj is or is nested in; 0 for a top-level enum
UnitOf(obj) ==
  IF obj.kind = "desc" THEN RootAncestor(allFiles[obj.file].desc, obj.idx)
  ELSE IF allFiles[obj.file].enum[obj.idx].parent = 0 THEN 0
  ELSE RootAncestor(allFiles[obj.file].desc, allFiles[obj.file].enum[obj.idx].parent)

\* the type fld refers to belongs to the output unit of it
LocalTo(it, fld) ==
  /\ typeNameToObject[fld.TypeName].file = it.file
  /\ UnitOf(typeNameToObject[fld.TypeName]) = it.idx

\* the name of the output unit the type fld refers to belongs to
ReferencedUnit(fld) ==
  IF UnitOf(typeNameToObject[fld.TypeName]) = 0
  THEN allFiles[typeNameToObject[fld.TypeName].file]
         .enum[typeNameToObject[fld.TypeName].idx].proto.Name
  ELSE allFiles[typeNameToObject[fld.TypeName].file]
         .desc[UnitOf(typeNameToObject[fld.TypeName])].proto.Name

\* the artifact holds an import line for the unit the type of fld belongs to
Imported(file, fld) ==
  \E i \in DOMAIN file.Content :
    /\ HasPrefix(file.Content[i], "import ")
    /\ HasSuffix(file.Content[i], "." \o ReferencedUnit(fld) \o ";")

\* C14: in every value-object artifact of the response, a type reference has an
\* import line exactly when the referenced type belongs to another output unit.
QualifiersMatchUnits ==
  \A k \in DOMAIN Response.File :
    Work(allFiles, genFiles)[k].kind = "desc" =>
      \A fld \in TypeReferences(Work(allFiles, genFiles)[k]) :
        Imported(Response.File[k], fld) <=> ~LocalTo(Work(allFiles, genFiles)[k], fld)

(***************************************************************************)
(* The package names of internal/generator (PackageNameSpec): the          *)
(* generator starts on files and asks for the names of import paths, while *)
(* callers register names with the global registry.                        *)
(***************************************************************************)
isGoPredeclaredIdentifier ==
  {"append", "bool", "byte", "cap", "close", "complex", "complex128", "complex64", "copy",
   "delete", "error", "false", "float32", "float64", "imag", "int", "int16", "int32", "int64",
   "int8", "iota", "len", "make", "new", "nil", "panic", "print", "println", "real", "recover",
   "rune", "string", "true", "uint", "uint16", "uint32", "uint64", "uint8", "uintptr"}

\* Generator.JavaPackageName: the name of an import path, allocated at the first call
JavaPackageName(names, used, importPath) ==
  IF importPath \in DOMAIN names
  THEN [packageNames |-> names, usedPackageNames |-> used, name |-> names[importPath]]
  ELSE [packageNames |->
          MapPut(names, importPath,
                 NextFree(used \cup isGoPredeclaredIdentifier,
                          cleanPackageName(baseName(importPath)), 1,
                          cleanPackageName(baseName(importPath)))),
        usedPackageNames |->
          used \cup {NextFree(used \cup isGoPredeclaredIdentifier,
                              cleanPackageName(baseName(importPath)), 1,
                              cleanPackageName(baseName(importPath)))},
        name |-> NextFree(used \cup isGoPredeclaredIdentifier,
                          cleanPackageName(baseName(importPath)), 1,
                          cleanPackageName(baseName(importPath)))]

\* the import paths of the calls
ImportPaths == {"x/int", "y/int", "x/class", "x/fmt", "y/foo"}

\* the fields of the generator after a call that returned r
JavaPackageNameReturned(r, importPath) ==
  /\ packageNames' = r.packageNames
  /\ usedPackageNames' = r.usedPackageNames
  /\ registered' = Append(registered, [registry |-> "generator", pkg |-> importPath, f |-> 0,
                                       before |-> usedPackageNames, name |-> r.name])

\* the head of Generator.generate: the maps of the file start from the global names
StartFile ==
  /\ packageNames' = EmptyMap
  /\ usedPackageNames' = globalPackageNames
  /\ UNCHANGED <<data, pc, Request, allFiles, genFiles, typeNameToObject, Response, stdout,
                 stderr, exitStatus>>
  /\ UNCHANGED pkgVars
  /\ UNCHANGED <<Param, ImportMap, voPackage, packageName, Pkg, pkgNamesInUse,
                 uniquePackageName, globalPackageNames, registered>>
  /\ UNCHANGED callVars

\* a call of Generator.JavaPackageName
JavaPackageNameCall ==
  /\ Len(registered) < MaxRegs
  /\ \E importPath \in ImportPaths :
       JavaPackageNameReturned(JavaPackageName(packageNames, usedPackageNames, importPath),
                               importPath)
  /\ UNCHANGED <<data, pc, Request, allFiles, genFiles, typeNameToObject, Response, stdout,
                 stderr, exitStatus>>
  /\ UNCHANGED pkgVars
  /\ UNCHANGED <<Param, ImportMap, voPackage, packageName, Pkg, pkgNamesInUse,
                 uniquePackageName, globalPackageNames>>
  /\ UNCHANGED callVars

PackageNameNext ==
  \/ StartFile
  \/ JavaPackageNameCall
  \/ RegisterInternal

PackageNameSpec == RegistryInit /\ [][PackageNameNext]_vars

\* the reserved words and the built-in type names of Java
JavaReservedWords ==
  {"abstract", "assert", "boolean", "break", "byte", "case", "catch", "char", "class", "const",
   "continue", "default", "do", "double", "else", "enum", "extends", "final", "finally",
   "float", "for", "goto", "if", "implements", "import", "instanceof", "int", "interface",
   "long", "native", "new", "package", "private", "protected", "public", "return", "short",
   "static", "strictfp", "super", "switch", "synchronized", "this", "throw", "throws",
   "transient", "try", "void", "volatile", "while", "true", "false", "null"}

\* C15: no name a registry or the generator has allocated is a reserved word or
\* a built-in type name of the target language.
NoReservedNameAllocated ==
  \A i \in DOMAIN registered : registered[i].name \notin JavaReservedWords

(***************************************************************************)
(* oneofField.populate (pkg/generator/bean.go) called on its own           *)
(* (OneofSpec): arg is the oneofField, the text goes to g.Buffer, and      *)
(* result is one evaluation of the generated forNumber.                    *)
(***************************************************************************)
RECURSIVE ToUpper(_)
\* strings.ToUpper, byte by byte
ToUpper(s) ==
  IF s = "" THEN ""
  ELSE IF Len(s) = 1 THEN ToUpperChar(s)
  ELSE ToUpper(SubSeq(s, 1, Len(s) \div 2)) \o ToUpper(SubSeq(s, Len(s) \div 2 + 1, Len(s)))

\* oneofSubField.getEnumName
getEnumName(sf) == ToUpper(sf.Name)

\* oneofField.getCaseClassName
getCaseClassName(f) == Title(f.name) \o "Case"

\* the sentinel of populate
NotSet(f) == ToUpper(f.name) \o "_" \o "NOT_SET"

\* oneofField.populate; g.Newline() prints an empty line
populate(e, f) ==
  IF Len(f.subFields) = 0 THEN e
  ELSE Do(e, <<L("enum class " \o getCaseClassName(f) \o "(val code: Int) {"), InS>>
             \o [i \in DOMAIN f.subFields |->
                   L(getEnumName(f.subFields[i]) \o "(" \o Itoa(f.subFields[i].Number) \o "),")]
             \o <<L(ToUpper(f.name) \o "_NOT_SET(0);"),
                  L(""), L("companion object {"), InS,
                  L("fun forNumber(value: Int): " \o getCaseClassName(f) \o " {"), InS,
                  L("return when (value) {"), InS>>
             \o [i \in DOMAIN f.subFields |->
                   L(getEnumName(f.subFields[i]) \o ".code -> " \o getEnumName(f.subFields[i]))]
             \o <<L("else -> " \o NotSet(f)), OutS, L("}"), OutS, L("}"), OutS, L("}"), OutS,
                  L("}"), L(""),
                  L("var " \o f.name \o "Case: " \o getCaseClassName(f) \o " = "
                    \o getCaseClassName(f) \o "." \o NotSet(f))>>)

\* the fields a oneof is made of
VariantPool ==
  <<[Name |-> "a", Number |-> 1], [Name |-> "b", Number |-> 2],
    [Name |-> "A", Number |-> 3], [Name |-> "kind_not_set", Number |-> 4]>>

\* the oneofField values populate is called on
Oneofs ==
  {[name |-> n, subFields |-> [i \in DOMAIN q |-> VariantPool[q[i]]]] :
     n \in {"kind", "a"},
     q \in {r \in SeqsOver(DOMAIN VariantPool, MaxVariants) : Distinct(r)}}

\* the arguments handed to the generated forNumber
LookupValues == 0..5

\* the generated text as the target language reads it: a line without its indentation
Unindented(line) ==
  IF \A i \in 1..Len(line) : CharAt(line, i) = " " THEN ""
  ELSE SubSeq(line, MinOf({i \in 1..Len(line) : CharAt(line, i) # " "}), Len(line))

RECURSIVE Atoi(_)
\* the number a decimal numeral denotes
Atoi(digits) ==
  IF digits = "" THEN 0
  ELSE Atoi(SubSeq(digits, 1, Len(digits) - 1)) * 10
       + (Index(DigitChars, CharAt(digits, Len(digits))) - 1)

\* the entries of the enum class in the order they are declared
Enumerators(buf) ==
  LET entries == SelectSeq([i \in DOMAIN buf |-> Unindented(buf[i])],
                           LAMBDA l : (HasSuffix(l, "),") \/ HasSuffix(l, ");"))
                                      /\ Index(l, "(") > 1)
  IN [i \in DOMAIN entries |->
        [name |-> SubSeq(entries[i], 1, Index(entries[i], "(") - 1),
         code |-> Atoi(SubSeq(entries[i], Index(entries[i], "(") + 1,
                              Index(entries[i], ")") - 1))]]

\* the branches of the when expression in order, and the target of its else
Branches(buf) ==
  LET lines == SelectSeq([i \in DOMAIN buf |-> Unindented(buf[i])],
                         LAMBDA l : Contains(l, ".code -> "))
  IN [i \in DOMAIN lines |->
        [entry |-> SubSeq(lines[i], 1, Index(lines[i], ".code -> ") - 1),
         target |-> SubSeq(lines[i], Index(lines[i], ".code -> ") + 9, Len(lines[i]))]]

ElseTarget(buf) ==
  LET lines == SelectSeq([i \in DOMAIN buf |-> Unindented(buf[i])],
                         LAMBDA l : HasPrefix(l, "else -> "))
  IN SubSeq(lines[1], 9, Len(lines[1]))

\* what forNumber(value) can return: the target of a branch whose entry has the
\* code value, the target of else when there is none; an entry name that is
\* declared twice can stand for either declaration
ForNumber(buf, value) ==
  LET hit == {i \in DOMAIN Branches(buf) :
                \E k \in DOMAIN Enumerators(buf) :
                  /\ Enumerators(buf)[k].name = Branches(buf)[i].entry
                  /\ Enumerators(buf)[k].code = value}
  IN IF hit = {} THEN {ElseTarget(buf)} ELSE {Branches(buf)[i].target : i \in hit}

OneofInit ==
  /\ data = [valid |-> FALSE, request |-> EmptyRequest]
  /\ New
  /\ LegacyNew
  /\ Globals
  /\ InternalNew
  /\ arg \in Oneofs
  /\ result = [returned |-> FALSE, value |-> 0, case |-> ""]
  /\ now = 0
  /\ run = 1
  /\ firstOutput = <<>>

\* f.populate(g, d)
PopulateOneof ==
  /\ Buffer.buf = <<>>
  /\ Buffer' = populate(Buffer, arg)
  /\ UNCHANGED <<data, pc, Request, ValueObjectPackage, ConverterPackage, allFiles, genFiles,
                 typeNameToObject, position, Response, stdout, stderr, exitStatus, now, run,
                 firstOutput>>
  /\ UNCHANGED <<Param, ImportMap, voPackage, packageName, Pkg, pkgNamesInUse,
                 uniquePackageName, globalPackageNames, registered>>
  /\ UNCHANGED internalVars
  /\ UNCHANGED callVars

\* one call of the generated forNumber
CallForNumber ==
  /\ Buffer.buf # <<>>
  /\ ~result.returned
  /\ \E value \in LookupValues : \E case \in ForNumber(Buffer.buf, value) :
       result' = [returned |-> TRUE, value |-> value, case |-> case]
  /\ UNCHANGED <<data, pc, Request, ValueObjectPackage, ConverterPackage, allFiles, genFiles,
                 typeNameToObject, Buffer, position, Response, stdout, stderr, exitStatus, now,
                 run, firstOutput>>
  /\ UNCHANGED <<Param, ImportMap, voPackage, packageName, Pkg, pkgNamesInUse,
                 uniquePackageName, globalPackageNames, registered>>
  /\ UNCHANGED internalVars
  /\ UNCHANGED arg

OneofNext ==
  \/ PopulateOneof
  \/ CallForNumber

OneofSpec == OneofInit /\ [][OneofNext]_vars

\* the positions of the variants whose field number is value
VariantsNumbered(value) == {i \in DOMAIN arg.subFields : arg.subFields[i].Number = value}

\* C16: the discriminant type generated for a oneof with variants declares one
\* entry per variant, carrying the field number of the variant, and one entry
\* more, the sentinel, with its own name and the code 0; forNumber returns the
\* entry of the variant whose field number it is given and the sentinel for
\* every other number.
DiscriminantExact ==
  Buffer.buf # <<>> =>
    /\ Len(Enumerators(Buffer.buf)) = Len(arg.subFields) + 1
    /\ \A i, j \in DOMAIN Enumerators(Buffer.buf) :
         i # j => Enumerators(Buffer.buf)[i].name # Enumerators(Buffer.buf)[j].name
    /\ \A i \in DOMAIN arg.subFields :
         Enumerators(Buffer.buf)[i].code = arg.subFields[i].Number
    /\ Enumerators(Buffer.buf)[Len(Enumerators(Buffer.buf))].code = 0
    /\ result.returned
         => IF VariantsNumbered(result.value) # {}
            THEN \A i \in VariantsNumbered(result.value) :
                   result.case = Enumerators(Buffer.buf)[i].name
            ELSE result.case = Enumerators(Buffer.buf)[Len(Enumerators(Buffer.buf))].name

(***************************************************************************)
(* The shipped pipeline on requests with an enum that has aliases          *)
(* (AliasSpec).                                                            *)
(***************************************************************************)
\* ON and ENABLED share the number 1
FileAlias ==
  File("alias.proto", "al", JavaOptions("com.acme.pb", "PbAlias"), <<>>,
       <<Enum("Mode", <<EnumVal("OFF", 0), EnumVal("ON", 1), EnumVal("ENABLED", 1)>>)>>, <<>>)

AliasCatalogue == <<FileAlias, FileHelloJava, FileNest>>

AliasProtoFiles ==
  {[i \in DOMAIN q |-> AliasCatalogue[q[i]]] :
     q \in {r \in SeqsOver(DOMAIN AliasCatalogue, MaxFiles) : Distinct(r)}}

AliasRequests ==
  UNION {{[ProtoFile |-> fs, FileToGenerate |-> gen, Parameter |-> prm] :
            gen \in FilesToGenerate(fs), prm \in {"", "vopkg=com.acme.vo"}} :
         fs \in AliasProtoFiles}

AliasInit ==
  /\ data \in {[valid |-> TRUE, request |-> r] : r \in AliasRequests}
              \cup {[valid |-> FALSE, request |-> EmptyRequest]}
  /\ New
  /\ LegacyNew
  /\ Globals
  /\ InternalNew
  /\ NoCall
  /\ now = 0
  /\ run = 1
  /\ firstOutput = <<>>

AliasSpec == AliasInit /\ [][Next]_vars

\* the lines of an artifact that are entries of a number lookup
ActiveCases(content) ==
  {i \in DOMAIN content : HasPrefix(Unindented(content[i]), "case ")}

\* the number an entry of a lookup maps
CaseLabel(line) == SubSeq(Unindented(line), 6, Index(Unindented(line), ":") - 1)

\* two lines of an artifact belong to the same switch
SameSwitch(content, i, j) ==
  \A m \in MinOf({i, j})..MaxOf({i, j}) : Unindented(content[m]) # "switch (value) {"

\* C17: an enum with two members of one number is generated without aborting,
\* and in the number lookup of every generated artifact each number is mapped
\* by at most one active entry.
OneActiveEntryPerNumber ==
  \A k \in DOMAIN Response.File :
    \A i, j \in ActiveCases(Response.File[k].Content) :
      /\ SameSwitch(Response.File[k].Content, i, j)
      /\ CaseLabel(Response.File[k].Content[i]) = CaseLabel(Response.File[k].Content[j])
      => i = j

(***************************************************************************)
(* unescape (pkg/generator/helper.go) called on its own (UnescapeSpec).    *)
(* A Go string is the sequence of its bytes, a byte a number in 0..255.    *)
(***************************************************************************)
Backslash == 92

\* s[n:]
SliceFrom(s, n) == SubSeq(s, n + 1, Len(s))

\* the table escapeChars; 0 where the table has no entry
escapeChars(b) ==
  CASE b = 97 -> 7
    [] b = 98 -> 8
    [] b = 102 -> 12
    [] b = 110 -> 10
    [] b = 114 -> 13
    [] b = 116 -> 9
    [] b = 118 -> 11
    [] b = 92 -> 92
    [] b = 34 -> 34
    [] b = 39 -> 39
    [] b = 63 -> 63
    [] OTHER -> 0

\* the digit a byte stands for in strconv.ParseUint; 36 for a byte that is no digit
DigitOf(b) ==
  IF b \in 48..57 THEN b - 48
  ELSE IF b \in 97..122 THEN b - 97 + 10
  ELSE IF b \in 65..90 THEN b - 65 + 10
  ELSE 36

RECURSIVE UintOf(_, _)
\* the number the digits denote in the base
UintOf(digits, base) ==
  IF Len(digits) = 0 THEN 0
  ELSE UintOf(SubSeq(digits, 1, Len(digits) - 1), base) * base + DigitOf(digits[Len(digits)])

\* strconv.ParseUint(digits, base, bitSize)
ParseUint(digits, base, bitSize) ==
  IF \/ Len(digits) = 0
     \/ \E i \in DOMAIN digits : DigitOf(digits[i]) >= base
     \/ UintOf(digits, base) >= 2 ^ bitSize
  THEN [v |-> 0, err |-> TRUE]
  ELSE [v |-> UintOf(digits, base), err |-> FALSE]

\* len(s) - len(strings.TrimLeft(s, "01234567"))
OctalRun(s) ==
  IF \A i \in DOMAIN s : s[i] \in 48..55 THEN Len(s)
  ELSE MinOf({i \in DOMAIN s : s[i] \notin 48..55}) - 1

\* the n of the octal branch
OctalWidth(s) == IF OctalRun(SliceFrom(s, 1)) > 3 THEN 3 ELSE OctalRun(SliceFrom(s, 1))

\* one turn of the loop that reads an octal escape modulo 256
unescapeStepWrapping(s) ==
  IF s[1] # Backslash \/ Len(s) < 2 THEN [out |-> <<s[1]>>, rest |-> SliceFrom(s, 1)]
  ELSE IF escapeChars(s[2]) # 0 THEN [out |-> <<escapeChars(s[2])>>, rest |-> SliceFrom(s, 2)]
  ELSE IF s[2] = 120 \/ s[2] = 88
  THEN IF Len(s) < 4 THEN [out |-> SubSeq(s, 1, 2), rest |-> SliceFrom(s, 2)]
       ELSE IF ParseUint(SubSeq(s, 3, 4), 16, 8).err
       THEN [out |-> SubSeq(s, 1, 4), rest |-> SliceFrom(s, 4)]
       ELSE [out |-> <<ParseUint(SubSeq(s, 3, 4), 16, 8).v>>, rest |-> SliceFrom(s, 4)]
  ELSE IF 48 <= s[2] /\ s[2] <= 55
  THEN [out |-> <<UintOf(SubSeq(s, 2, 1 + OctalWidth(s)), 8) % 256>>,
        rest |-> SliceFrom(s, 1 + OctalWidth(s))]
  ELSE [out |-> <<s[1]>>, rest |-> SliceFrom(s, 1)]

\* one turn of the loop that takes a backslash and an x for an ordinary byte each
unescapeStepNoHex(s) ==
  IF s[1] # Backslash \/ Len(s) < 2 THEN [out |-> <<s[1]>>, rest |-> SliceFrom(s, 1)]
  ELSE IF escapeChars(s[2]) # 0 THEN [out |-> <<escapeChars(s[2])>>, rest |-> SliceFrom(s, 2)]
  ELSE IF 48 <= s[2] /\ s[2] <= 55
  THEN IF ParseUint(SubSeq(s, 2, 1 + OctalWidth(s)), 8, 8).err
       THEN [out |-> SubSeq(s, 1, 1 + OctalWidth(s)), rest |-> SliceFrom(s, 1 + OctalWidth(s))]
       ELSE [out |-> <<ParseUint(SubSeq(s, 2, 1 + OctalWidth(s)), 8, 8).v>>,
             rest |-> SliceFrom(s, 1 + OctalWidth(s))]
  ELSE [out |-> <<s[1]>>, rest |-> SliceFrom(s, 1)]

\* one turn of the loop that leaves a bad escape in s
unescapeStepStuck(s) ==
  IF s[1] # Backslash \/ Len(s) < 2 THEN [out |-> <<s[1]>>, rest |-> SliceFrom(s, 1)]
  ELSE IF escapeChars(s[2]) # 0 THEN [out |-> <<escapeChars(s[2])>>, rest |-> SliceFrom(s, 2)]
  ELSE IF s[2] = 120 \/ s[2] = 88
  THEN IF Len(s) < 4 THEN [out |-> SubSeq(s, 1, 2), rest |-> SliceFrom(s, 2)]
       ELSE IF ParseUint(SubSeq(s, 3, 4), 16, 8).err
       THEN [out |-> SubSeq(s, 1, 4), rest |-> SliceFrom(s, 4)]
       ELSE [out |-> <<ParseUint(SubSeq(s, 3, 4), 16, 8).v>>, rest |-> SliceFrom(s, 4)]
  ELSE IF 48 <= s[2] /\ s[2] <= 55
  THEN IF ParseUint(SubSeq(s, 2, 1 + OctalWidth(s)), 8, 8).err
       THEN [out |-> SubSeq(s, 1, 1 + OctalWidth(s)), rest |-> SliceFrom(s, 1 + OctalWidth(s))]
       ELSE [out |-> <<ParseUint(SubSeq(s, 2, 1 + OctalWidth(s)), 8, 8).v>>,
             rest |-> SliceFrom(s, 1 + OctalWidth(s))]
  ELSE [out |-> <<>>, rest |-> s]

\* one turn of the loop of unescape on a non-empty s: the bytes appended to out
\* and the s the next turn starts with
unescapeStep(s) ==
  IF s[1] # Backslash \/ Len(s) < 2 THEN [out |-> <<s[1]>>, rest |-> SliceFrom(s, 1)]
  ELSE IF escapeChars(s[2]) # 0 THEN [out |-> <<escapeChars(s[2])>>, rest |-> SliceFrom(s, 2)]
  ELSE IF s[2] = 120 \/ s[2] = 88
  THEN IF Len(s) < 4 THEN [out |-> SubSeq(s, 1, 2), rest |-> SliceFrom(s, 2)]
       ELSE IF ParseUint(SubSeq(s, 3, 4), 16, 8).err
       THEN [out |-> SubSeq(s, 1, 4), rest |-> SliceFrom(s, 4)]
       ELSE [out |-> <<ParseUint(SubSeq(s, 3, 4), 16, 8).v>>, rest |-> SliceFrom(s, 4)]
  ELSE IF 48 <= s[2] /\ s[2] <= 55
  THEN IF ParseUint(SubSeq(s, 2, 1 + OctalWidth(s)), 8, 8).err
       THEN [out |-> SubSeq(s, 1, 1 + OctalWidth(s)), rest |-> SliceFrom(s, 1 + OctalWidth(s))]
       ELSE [out |-> <<ParseUint(SubSeq(s, 2, 1 + OctalWidth(s)), 8, 8).v>>,
             rest |-> SliceFrom(s, 1 + OctalWidth(s))]
  ELSE [out |-> <<s[1]>>, rest |-> SliceFrom(s, 1)]

RECURSIVE unescape(_)
unescape(s) ==
  IF Len(s) = 0 THEN <<>>
  ELSE unescapeStep(s).out \o unescape(unescapeStep(s).rest)

\* the bytes \ x 1 4 7 n q a
EscapeAlphabet == {92, 120, 49, 52, 55, 110, 113, 97}

\* the literal \101\x42C
LiteralABC == <<92, 49, 48, 49, 92, 120, 52, 50, 67>>

EscapeInputs == SeqsOver(EscapeAlphabet, MaxEscapeLen) \cup {LiteralABC}

UnescapeInit ==
  /\ data = [valid |-> FALSE, request |-> EmptyRequest]
  /\ New
  /\ LegacyNew
  /\ Globals
  /\ InternalNew
  /\ arg \in EscapeInputs
  /\ result = [returned |-> FALSE, out |-> <<>>]
  /\ now = 0
  /\ run = 1
  /\ firstOutput = <<>>

\* unescape(arg)
UnescapeCall ==
  /\ ~result.returned
  /\ result' = [returned |-> TRUE, out |-> unescape(arg)]
  /\ UNCHANGED <<data, pc, Request, ValueObjectPackage, ConverterPackage, allFiles, genFiles,
                 typeNameToObject, Buffer, position, Response, stdout, stderr, exitStatus, now,
                 run, firstOutput>>
  /\ UNCHANGED <<Param, ImportMap, voPackage, packageName, Pkg, pkgNamesInUse,
                 uniquePackageName, globalPackageNames, registered>>
  /\ UNCHANGED internalVars
  /\ UNCHANGED arg

UnescapeSpec == UnescapeInit /\ [][UnescapeCall]_vars

\* the escapes of the C language, by what the claims call them
IsHexDigit(b) == b \in 48..57 \cup 65..70 \cup 97..102

IsOctalDigit(b) == b \in 48..55

HexValue(b) == IF b \in 48..57 THEN b - 48 ELSE IF b \in 65..70 THEN b - 55 ELSE b - 87

\* the byte of a named escape: \a \b \f \n \r \t \v \\ \" \' \?
NamedEscape ==
  (97 :> 7) @@ (98 :> 8) @@ (102 :> 12) @@ (110 :> 10) @@ (114 :> 13) @@ (116 :> 9)
  @@ (118 :> 11) @@ (92 :> 92) @@ (34 :> 34) @@ (39 :> 39) @@ (63 :> 63)

\* the octal digits after the backslash s starts with, three at most
OctalDigits(s) ==
  IF Len(s) >= 4 /\ IsOctalDigit(s[3]) /\ IsOctalDigit(s[4]) THEN SubSeq(s, 2, 4)
  ELSE IF Len(s) >= 3 /\ IsOctalDigit(s[3]) THEN SubSeq(s, 2, 3)
  ELSE SubSeq(s, 2, 2)

RECURSIVE OctalValue(_)
OctalValue(digits) ==
  IF Len(digits) = 0 THEN 0
  ELSE 8 * OctalValue(SubSeq(digits, 1, Len(digits) - 1)) + (digits[Len(digits)] - 48)

\* the sequence a non-empty s starts with: an ordinary byte, a well-formed
\* escape with the byte it stands for, or a malformed sequence
FirstToken(s) ==
  IF s[1] # Backslash THEN [bytes |-> <<s[1]>>, malformed |-> FALSE, out |-> <<s[1]>>]
  ELSE IF Len(s) = 1 THEN [bytes |-> s, malformed |-> TRUE, out |-> s]
  ELSE IF s[2] \in DOMAIN NamedEscape
  THEN [bytes |-> SubSeq(s, 1, 2), malformed |-> FALSE, out |-> <<NamedEscape[s[2]]>>]
  ELSE IF s[2] \in {120, 88}
  THEN IF Len(s) >= 4 /\ IsHexDigit(s[3]) /\ IsHexDigit(s[4])
       THEN [bytes |-> SubSeq(s, 1, 4), malformed |-> FALSE,
             out |-> <<16 * HexValue(s[3]) + HexValue(s[4])>>]
       ELSE [bytes |-> SubSeq(s, 1, IF Len(s) < 4 THEN Len(s) ELSE 4), malformed |-> TRUE,
             out |-> SubSeq(s, 1, IF Len(s) < 4 THEN Len(s) ELSE 4)]
  ELSE IF IsOctalDigit(s[2])
  THEN IF OctalValue(OctalDigits(s)) <= 255
       THEN [bytes |-> SubSeq(s, 1, 1 + Len(OctalDigits(s))), malformed |-> FALSE,
             out |-> <<OctalValue(OctalDigits(s))>>]
       ELSE [bytes |-> SubSeq(s, 1, 1 + Len(OctalDigits(s))), malformed |-> TRUE,
             out |-> SubSeq(s, 1, 1 + Len(OctalDigits(s)))]
  ELSE [bytes |-> SubSeq(s, 1, 2), malformed |-> TRUE, out |-> SubSeq(s, 1, 2)]

RECURSIVE Tokens(_)
Tokens(s) ==
  IF Len(s) = 0 THEN <<>>
  ELSE <<FirstToken(s)>> \o Tokens(SliceFrom(s, Len(FirstToken(s).bytes)))

WellFormed(s) == \A t \in DOMAIN Tokens(s) : ~Tokens(s)[t].malformed

RECURSIVE Outputs(_)
\* what the tokens stand for, one after the other
Outputs(toks) == IF Len(toks) = 0 THEN <<>> ELSE toks[1].out \o Outputs(Tail(toks))

\* C18: on an input made of ordinary bytes and well-formed escapes only,
\* unescape returns the byte of every escape and every other byte unchanged, in
\* order; the literal \101\x42C is decoded to the bytes A, B, C.
WellFormedDecoded ==
  result.returned =>
    /\ WellFormed(arg) => result.out = Outputs(Tokens(arg))
    /\ arg = LiteralABC => result.out = <<65, 66, 67>>

WellFormedDecodedWitness ==
  /\ result.returned
  /\ arg = LiteralABC
  /\ result.out = <<65, 66, 67>>

\* C19: unescape returns on every input, and every malformed sequence of the
\* input (a truncated \x, \x followed by a byte that is no hex digit, an octal
\* value above 255, an unknown escape letter, a closing lone backslash) stands in
\* the output byte for byte, at the place the sequences before it leave it.
MalformedPassedThrough ==
  result.returned =>
    \A t \in DOMAIN Tokens(arg) :
      Tokens(arg)[t].malformed =>
        /\ Len(result.out) >= Len(Outputs(SubSeq(Tokens(arg), 1, t)))
        /\ SubSeq(result.out,
                  Len(Outputs(SubSeq(Tokens(arg), 1, t - 1))) + 1,
                  Len(Outputs(SubSeq(Tokens(arg), 1, t))))
             = Tokens(arg)[t].bytes

\* the octal escape \777, whose value is above 255
MalformedPassedThroughWitness ==
  /\ result.returned
  /\ arg = <<92, 55, 55, 55>>
  /\ result.out = <<92, 55, 55, 55>>

(***************************************************************************)
(* CamelCase called on its own, twice in a row (CamelCaseSpec): the        *)
(* function of pkg/generator and the one of internal/generator.            *)
(***************************************************************************)
\* CamelCase of internal/generator: a leading underscore becomes X, no byte is lowered
InternalCamelCase(s) ==
  IF s = "" THEN ""
  ELSE IF CharAt(s, 1) = "_" THEN CamelLoop(s, 2, "X")
  ELSE CamelLoop(s, 1, "")

\* the identifiers of a schema: letters, digits and underscores, no digit in front
IdentChars == {"a", "b", "B", "_", "1"}

Identifiers ==
  {Join(q, "") : q \in {r \in SeqsOver(IdentChars, MaxIdentLen) :
                          Len(r) > 0 /\ ~isASCIIDigit(r[1])}}

CamelCaseInit ==
  /\ data = [valid |-> FALSE, request |-> EmptyRequest]
  /\ New
  /\ LegacyNew
  /\ Globals
  /\ InternalNew
  /\ arg \in Identifiers
  /\ result = [returned |-> FALSE, by |-> "", once |-> "", twice |-> ""]
  /\ now = 0
  /\ run = 1
  /\ firstOutput = <<>>

\* CamelCase(CamelCase(arg)) in pkg/generator
CamelCaseCall ==
  /\ ~result.returned
  /\ result' = [returned |-> TRUE, by |-> "pkg", once |-> CamelCase(arg),
                twice |-> CamelCase(CamelCase(arg))]
  /\ UNCHANGED <<data, pc, Request, ValueObjectPackage, ConverterPackage, allFiles, genFiles,
                 typeNameToObject, Buffer, position, Response, stdout, stderr, exitStatus, now,
                 run, firstOutput>>
  /\ UNCHANGED <<Param, ImportMap, voPackage, packageName, Pkg, pkgNamesInUse,
                 uniquePackageName, globalPackageNames, registered>>
  /\ UNCHANGED internalVars
  /\ UNCHANGED arg

\* CamelCase(CamelCase(arg)) in internal/generator
InternalCamelCaseCall ==
  /\ ~result.returned
  /\ result' = [returned |-> TRUE, by |-> "internal", once |-> InternalCamelCase(arg),
                twice |-> InternalCamelCase(InternalCamelCase(arg))]
  /\ UNCHANGED <<data, pc, Request, ValueObjectPackage, ConverterPackage, allFiles, genFiles,
                 typeNameToObject, Buffer, position, Response, stdout, stderr, exitStatus, now,
                 run, firstOutput>>
  /\ UNCHANGED <<Param, ImportMap, voPackage, packageName, Pkg, pkgNamesInUse,
                 uniquePackageName, globalPackageNames, registered>>
  /\ UNCHANGED internalVars
  /\ UNCHANGED arg

CamelCaseNext ==
  \/ CamelCaseCall
  \/ InternalCamelCaseCall

CamelCaseSpec == CamelCaseInit /\ [][CamelCaseNext]_vars

\* C20: for every schema identifier s, CamelCase(CamelCase(s)) = CamelCase(s).
CamelCaseIdempotent == result.returned => result.twice = result.once

\* a_b is mangled to aB, and aB to itself
CamelCaseIdempotentWitness ==
  /\ result.returned
  /\ result.by = "pkg"
  /\ arg = "a_b"
  /\ result.once = "aB"
  /\ result.twice = "aB"

(***************************************************************************)
(* Properties of the shipped pipeline (Spec): the order of the parts of a  *)
(* value-object artifact.                                                  *)
(***************************************************************************)
RECURSIVE FlattenSeq(_)
\* the sequences of a sequence, one after the other
FlattenSeq(seqs) == IF Len(seqs) = 0 THEN <<>> ELSE seqs[1] \o FlattenSeq(Tail(seqs))

\* line from position i on
SliceOf(line, i) == SubSeq(line, i, Len(line))

\* the first line of the body of an artifact: the line after the last empty
\* line in front of the first line that starts with public
BodyStart(content) ==
  LET firstPublic == MinOf({i \in DOMAIN content : HasPrefix(content[i], "public ")})
  IN MaxOf({i \in 1..firstPublic : content[i] = ""}) + 1

\* the word that ends in front of position i of line
WordBefore(line, i) ==
  SubSeq(line, LastIndex(SubSeq(line, 1, i - 1), " ") + 1, i - 1)

\* the word that starts at position i of line
WordAt(line, i) ==
  IF Index(SliceOf(line, i), " ") = 0 THEN SliceOf(line, i)
  ELSE SubSeq(line, i, i + Index(SliceOf(line, i), " ") - 2)

\* the part of a message or of an enum a line of an artifact starts; "" for a
\* line that starts none
PartOf(line) ==
  IF HasPrefix(line, "//") THEN "comment"
  ELSE IF HasPrefix(line, "public enum ") THEN "enum " \o WordAt(line, 13)
  ELSE IF HasPrefix(line, "public final ") THEN "message " \o WordAt(line, 14)
  ELSE IF HasPrefix(line, "public static final ") THEN "message " \o WordAt(line, 21)
  ELSE IF HasPrefix(line, "return \"") /\ HasSuffix(line, "{\" +")
  THEN "toString " \o SubSeq(line, 9, Len(line) - 4)
  ELSE IF HasPrefix(line, "public ") /\ Contains(line, ";") /\ ~Contains(line, "(")
  THEN "field " \o WordBefore(line, Index(line, ";"))
  ELSE ""

\* the parts of an artifact in the order of its lines
Parts(content) ==
  SelectSeq([i \in 1..(Len(content) - BodyStart(content) + 1) |->
               PartOf(Unindented(content[BodyStart(content) + i - 1]))],
            LAMBDA part : part # "")

\* the comment in front of a declaration, when it has one
CommentPart(fd, deprecated, path) ==
  (IF deprecated THEN <<"comment">> ELSE <<>>)
  \o (IF makeComments(fd, path) # Nil THEN <<"comment">> ELSE <<>>)

FieldPartsOf(fd, msg) ==
  FlattenSeq([i \in DOMAIN msg.proto.Field |->
                CommentPart(fd, FALSE,
                            msg.path \o "," \o Itoa(messageFieldPath) \o "," \o Itoa(i - 1))
                \o <<"field " \o javaFieldName(msg.proto.Field[i])>>])

EnumPartsOf(fd, msg) ==
  FlattenSeq([i \in DOMAIN msg.enums |->
                CommentPart(fd, fd.enum[msg.enums[i]].proto.Deprecated,
                            fd.enum[msg.enums[i]].path)
                \o <<"enum " \o fd.enum[msg.enums[i]].proto.Name, "field code">>])

ToStringPartOf(msg) ==
  IF Len(msg.proto.Field) > 0 THEN <<"toString " \o msg.proto.Name>> ELSE <<>>

RECURSIVE MessageParts(_, _, _)
\* the parts of message d of fd and of the messages nested in it; toStringFirst
\* puts the string-representation method in front of the nested types
MessageParts(fd, d, toStringFirst) ==
  CommentPart(fd, fd.desc[d].proto.Deprecated, fd.desc[d].path)
  \o <<"message " \o fd.desc[d].proto.Name>>
  \o FieldPartsOf(fd, fd.desc[d])
  \o (IF toStringFirst THEN ToStringPartOf(fd.desc[d]) ELSE <<>>)
  \o EnumPartsOf(fd, fd.desc[d])
  \o FlattenSeq([i \in DOMAIN fd.desc[d].nested |->
                   MessageParts(fd, fd.desc[d].nested[i], toStringFirst)])
  \o (IF toStringFirst THEN <<>> ELSE ToStringPartOf(fd.desc[d]))

\* C21 as stated: in every message artifact the parts are the leading comment,
\* the type header, the fields in declaration order, the string-representation
\* method, the nested enums, the nested messages, and so on in every nested
\* message.
ToStringBeforeNested ==
  \A k \in DOMAIN Response.File :
    Work(allFiles, genFiles)[k].kind = "desc" =>
      Parts(Response.File[k].Content)
        = MessageParts(allFiles[Work(allFiles, genFiles)[k].file],
                       Work(allFiles, genFiles)[k].idx, TRUE)

\* C21 amended: in every message artifact the parts are the leading comment, the
\* type header, the fields in declaration order, the nested enums, the nested
\* messages and then, for a message with fields, the string-representation
\* method, and so on in every nested message.
ToStringAfterNested ==
  \A k \in DOMAIN Response.File :
    Work(allFiles, genFiles)[k].kind = "desc" =>
      Parts(Response.File[k].Content)
        = MessageParts(allFiles[Work(allFiles, genFiles)[k].file],
                       Work(allFiles, genFiles)[k].idx, FALSE)

\* the artifact of a message with fields, a nested enum and nested messages is in
\* the response
ToStringAfterNestedWitness ==
  \E k \in DOMAIN Response.File :
    /\ Work(allFiles, genFiles)[k].kind = "desc"
    /\ allFiles[Work(allFiles, genFiles)[k].file].desc[Work(allFiles, genFiles)[k].idx].enums
         # <<>>
    /\ allFiles[Work(allFiles, genFiles)[k].file].desc[Work(allFiles, genFiles)[k].idx].nested
         # <<>>
    /\ Parts(Response.File[k].Content)
         = <<"comment", "message A", "comment", "field b", "field rs", "field e",
             "enum E", "field code", "message B", "field rawData", "message C",
             "toString B", "message D", "toString A">>

(***************************************************************************)
(* Properties of the shipped pipeline (Spec): the routines of a converter  *)
(* artifact.                                                               *)
(***************************************************************************)
\* the first line of the conversion routine of message d of fd
RoutineHeader(fd, d) ==
  "public static " \o Join(TypeName(fd.desc, d), ".") \o " to" \o Join(TypeName(fd.desc, d), "")
  \o "([]byte data) {"

\* the lines of an artifact that open the conversion routine of message d of fd
RoutinesOf(content, fd, d) ==
  {i \in DOMAIN content : Unindented(content[i]) = RoutineHeader(fd, d)}

\* C22: a converter artifact of the response holds a conversion routine for every
\* non-nested message of its file, and at most one routine for any message of
\* the file, nested or not.
OneRoutinePerMessage ==
  \A k \in DOMAIN Response.File :
    Work(allFiles, genFiles)[k].kind = "conv" =>
      \A d \in DOMAIN allFiles[Work(allFiles, genFiles)[k].file].desc :
        /\ allFiles[Work(allFiles, genFiles)[k].file].desc[d].parent = 0
             => RoutinesOf(Response.File[k].Content,
                           allFiles[Work(allFiles, genFiles)[k].file], d) # {}
        /\ Cardinality(RoutinesOf(Response.File[k].Content,
                                  allFiles[Work(allFiles, genFiles)[k].file], d)) <= 1

\* the converter of a file with a message nested two levels deep is in the
\* response, with one routine for the root and one for the nested message
OneRoutinePerMessageWitness ==
  \E k \in DOMAIN Response.File :
    /\ Work(allFiles, genFiles)[k].kind = "conv"
    /\ \E d \in DOMAIN allFiles[Work(allFiles, genFiles)[k].file].desc :
         /\ Len(TypeName(allFiles[Work(allFiles, genFiles)[k].file].desc, d)) = 3
         /\ Cardinality(RoutinesOf(Response.File[k].Content,
                                   allFiles[Work(allFiles, genFiles)[k].file], d)) = 1
         /\ Cardinality(RoutinesOf(Response.File[k].Content,
                                   allFiles[Work(allFiles, genFiles)[k].file],
                                   RootAncestor(allFiles[Work(allFiles, genFiles)[k].file].desc,
                                                d))) = 1

(***************************************************************************)
(* The first loop of populateEnum (pkg/generator/template.go) on its own   *)
(* (EnumDefaultSpec): arg is enum.Value, result what the loop leaves in    *)
(* addDefaultValue, defaultName and defaultValue.                          *)
(***************************************************************************)
EnumMemberNames == {"A", "B", "UNKNOWN", "Invalid_X", "UNKNOW"}

EnumMemberNumbers == {MinInt32, -2, -1, 0, 1, 5, MaxInt32}

\* the member lists of an enum: names are unique, numbers can repeat
EnumValueLists ==
  {q \in SeqsOver({EnumVal(n, v) : n \in EnumMemberNames, v \in EnumMemberNumbers},
                  MaxEnumValues) :
     /\ Len(q) > 0
     /\ \A i, j \in DOMAIN q : i # j => q[i].Name # q[j].Name}

EnumDefaultInit ==
  /\ data = [valid |-> FALSE, request |-> EmptyRequest]
  /\ New
  /\ LegacyNew
  /\ Globals
  /\ InternalNew
  /\ arg \in EnumValueLists
  /\ result = [returned |-> FALSE, addDefaultValue |-> TRUE, defaultName |-> "Unknown",
               defaultValue |-> -1]
  /\ now = 0
  /\ run = 1
  /\ firstOutput = <<>>

\* the loop over enum.Value that looks for the default
EnumDefaultCall ==
  /\ ~result.returned
  /\ result' = [returned |-> TRUE,
                addDefaultValue |-> EnumDefault(arg).addDefaultValue,
                defaultName |-> EnumDefault(arg).defaultName,
                defaultValue |-> EnumDefault(arg).defaultValue]
  /\ UNCHANGED <<data, pc, Request, ValueObjectPackage, ConverterPackage, allFiles, genFiles,
                 typeNameToObject, Buffer, position, Response, stdout, stderr, exitStatus, now,
                 run, firstOutput>>
  /\ UNCHANGED <<Param, ImportMap, voPackage, packageName, Pkg, pkgNamesInUse,
                 uniquePackageName, globalPackageNames, registered>>
  /\ UNCHANGED internalVars
  /\ UNCHANGED arg

EnumDefaultSpec == EnumDefaultInit /\ [][EnumDefaultCall]_vars

\* the positions of the members whose name contains default, unknown or invalid
NamedDefault(values) ==
  {i \in DOMAIN values :
     \/ Contains(ToLower(values[i].Name), "default")
     \/ Contains(ToLower(values[i].Name), "unknown")
     \/ Contains(ToLower(values[i].Name), "invalid")}

\* C23: when a member's name contains default, unknown or invalid in any case,
\* the first such member is the default and none is synthesized; otherwise a
\* default is synthesized whose value is one less than the least declared value.
DefaultOneBelowMinimum ==
  result.returned =>
    IF NamedDefault(arg) # {}
    THEN /\ ~result.addDefaultValue
         /\ result.defaultName = arg[MinOf(NamedDefault(arg))].Name
    ELSE /\ result.addDefaultValue
         /\ MinOf({arg[i].Number : i \in DOMAIN arg}) > MinInt32
         /\ result.defaultValue = MinOf({arg[i].Number : i \in DOMAIN arg}) - 1

\* C29: a synthesized default has a value no declared member of the enum has.
SynthesizedValueFresh ==
  (result.returned /\ result.addDefaultValue) =>
    \A i \in DOMAIN arg : arg[i].Number # result.defaultValue

(***************************************************************************)
(* The field loop of Generator.generateMessage (internal/generator) as far *)
(* as it allocates names (WrapperNameSpec): arg is the message, result the *)
(* position of the loop, usedNames, oFields and the oneofTypeName of the   *)
(* variants met so far.                                                    *)
(***************************************************************************)
methodNames ==
  {"Reset", "String", "ProtoMessage", "Marshal", "Unmarshal", "ExtensionRangeArray",
   "ExtensionMap", "Descriptor"}

\* CamelCaseSlice of internal/generator
CamelCaseSlice(elem) == InternalCamelCase(Join(elem, "_"))

RECURSIVE allocNames(_, _)
\* the closure allocNames: the names allocated and usedNames after the call
allocNames(used, ns) ==
  IF \E i \in DOMAIN ns : ns[i] \in used
  THEN allocNames(used, [i \in DOMAIN ns |-> ns[i] \o "_"])
  ELSE [ns |-> ns, usedNames |-> used \cup Range(ns)]

\* the names the collision loop compares tname with
SiblingTypeNames(message) ==
  {CamelCaseSlice(<<message.Name, message.nested[i]>>) : i \in DOMAIN message.nested}
  \cup {CamelCaseSlice(<<message.Name, message.enums[i]>>) : i \in DOMAIN message.enums}

RECURSIVE WrapperName(_, _)
\* the collision loop of a oneof field: tname with as many "_" as it takes
WrapperName(message, tname) ==
  IF tname \in SiblingTypeNames(message) THEN WrapperName(message, tname \o "_") ELSE tname

\* usedNames after the names of the field and, at the first field of a oneof,
\* the names of the oneof are allocated
UsedAfterField(message, state, field) ==
  IF field.oneof /\ ~state.oFields
  THEN allocNames(allocNames(state.usedNames,
                             <<InternalCamelCase(field.Name),
                               "Get" \o InternalCamelCase(field.Name)>>).usedNames,
                  <<InternalCamelCase(message.OneofDecl),
                    "Get" \o InternalCamelCase(message.OneofDecl)>>).usedNames
  ELSE allocNames(state.usedNames,
                  <<InternalCamelCase(field.Name), "Get" \o InternalCamelCase(field.Name)>>)
         .usedNames

\* fieldName of the field
FieldGoName(state, field) ==
  allocNames(state.usedNames,
             <<InternalCamelCase(field.Name), "Get" \o InternalCamelCase(field.Name)>>).ns[1]

\* one pass of the loop over message.Field
GenerateMessageField(message, state) ==
  [i |-> state.i + 1,
   usedNames |-> UsedAfterField(message, state, message.Field[state.i]),
   oFields |-> state.oFields \/ message.Field[state.i].oneof,
   oneofTypeName |->
     IF message.Field[state.i].oneof
     THEN Append(state.oneofTypeName,
                 [field |-> state.i,
                  tname |-> WrapperName(message,
                                        CamelCaseSlice(<<message.Name>>) \o "_"
                                        \o FieldGoName(state, message.Field[state.i]))])
     ELSE state.oneofTypeName]

OneofFieldNames == <<"a_b", "aB", "a", "reset">>

\* the messages generateMessage is called on: message M with the oneof kind
WrapperMessages ==
  {[Name |-> "M", OneofDecl |-> "kind", nested |-> ns, enums |-> es,
    Field |-> [i \in DOMAIN q |-> [Name |-> OneofFieldNames[q[i]], oneof |-> o[i]]]] :
     ns \in {<<>>, <<"AB">>, <<"A">>, <<"AB", "A">>},
     es \in {<<>>, <<"AB_">>},
     q \in {r \in SeqsOver(DOMAIN OneofFieldNames, MaxOneofFields) : Distinct(r)},
     o \in [1..MaxOneofFields -> BOOLEAN]}

WrapperNameInit ==
  /\ data = [valid |-> FALSE, request |-> EmptyRequest]
  /\ New
  /\ LegacyNew
  /\ Globals
  /\ InternalNew
  /\ arg \in {m \in WrapperMessages : Len(m.Field) > 0}
  /\ result = [i |-> 1, usedNames |-> methodNames, oFields |-> FALSE, oneofTypeName |-> <<>>]
  /\ now = 0
  /\ run = 1
  /\ firstOutput = <<>>

\* for i, field := range message.Field
GenerateMessageFieldStep ==
  /\ result.i <= Len(arg.Field)
  /\ result' = GenerateMessageField(arg, result)
  /\ UNCHANGED <<data, pc, Request, ValueObjectPackage, ConverterPackage, allFiles, genFiles,
                 typeNameToObject, Buffer, position, Response, stdout, stderr, exitStatus, now,
                 run, firstOutput>>
  /\ UNCHANGED <<Param, ImportMap, voPackage, packageName, Pkg, pkgNamesInUse,
                 uniquePackageName, globalPackageNames, registered>>
  /\ UNCHANGED internalVars
  /\ UNCHANGED arg

WrapperNameSpec == WrapperNameInit /\ [][GenerateMessageFieldStep]_vars

\* C24: the wrapper type names chosen for the oneof variants of a message differ
\* from the type name of every nested message and nested enum of the message
\* and from one another.
WrapperNamesDistinct ==
  /\ \A k \in DOMAIN result.oneofTypeName :
       result.oneofTypeName[k].tname \notin SiblingTypeNames(arg)
  /\ \A k, l \in DOMAIN result.oneofTypeName :
       k # l => result.oneofTypeName[k].tname # result.oneofTypeName[l].tname

(***************************************************************************)
(* Properties of the shipped pipeline (Spec): the flat list of messages    *)
(* WrapTypes builds for every file.                                        *)
(***************************************************************************)
RECURSIVE MessagePaths(_, _)
\* the paths of a message of the schema and of the messages nested in it
MessagePaths(msg, path) ==
  {path} \cup UNION {MessagePaths(msg.NestedType[i],
                                  path \o "," \o Itoa(messageMessagePath) \o "," \o Itoa(i - 1)) :
                       i \in DOMAIN msg.NestedType}

\* the paths of all the messages of a file of the schema
FilePaths(file) ==
  UNION {MessagePaths(file.MessageType[i], Itoa(messagePath) \o "," \o Itoa(i - 1)) :
           i \in DOMAIN file.MessageType}

\* C25: in the flat list of a wrapped file every message of the file occurs once,
\* a nested message refers to its parent, which stands earlier in the list, and
\* every message stands in front of all the messages nested in it.
FlatListPreOrder ==
  \A f \in DOMAIN allFiles :
    /\ {allFiles[f].desc[d].path : d \in DOMAIN allFiles[f].desc} = FilePaths(allFiles[f].proto)
    /\ Len(allFiles[f].desc) = Cardinality(FilePaths(allFiles[f].proto))
    /\ \A d \in DOMAIN allFiles[f].desc :
         /\ allFiles[f].desc[d].parent < d
         /\ allFiles[f].desc[d].path
              = IF allFiles[f].desc[d].parent = 0
                THEN Itoa(messagePath) \o "," \o Itoa(allFiles[f].desc[d].index)
                ELSE allFiles[f].desc[allFiles[f].desc[d].parent].path \o ","
                     \o Itoa(messageMessagePath) \o "," \o Itoa(allFiles[f].desc[d].index)
    /\ \A d, n \in DOMAIN allFiles[f].desc :
         HasPrefix(allFiles[f].desc[n].path, allFiles[f].desc[d].path \o ",") => d < n

\* a file with a message nested in a nested message is wrapped, and a message
\* follows the nested ones
FlatListPreOrderWitness ==
  \E f \in DOMAIN allFiles :
    \E d, n \in DOMAIN allFiles[f].desc :
      /\ allFiles[f].desc[d].parent # 0
      /\ allFiles[f].desc[allFiles[f].desc[d].parent].parent # 0
      /\ d < n

(***************************************************************************)
(* The shipped pipeline on requests with a file that has no package        *)
(* clause (NoPackageSpec).                                                 *)
(***************************************************************************)
\* message Greeting refers to message Hello of the same file: .Hello
FileNoPackage ==
  File("bare.proto", "", JavaOptions("com.acme.pb", "PbBare"),
       <<Msg("Hello", <<Fld("msg", 1, "TYPE_STRING", "LABEL_OPTIONAL", "")>>, <<>>, <<>>, FALSE),
         Msg("Greeting", <<Fld("hello", 1, "TYPE_MESSAGE", "LABEL_OPTIONAL", ".Hello")>>,
             <<>>, <<>>, FALSE)>>,
       <<>>, <<>>)

NoPackageCatalogue == <<FileNoPackage, FileHelloJava, FileAlias>>

NoPackageRequests ==
  UNION {{[ProtoFile |-> fs, FileToGenerate |-> gen, Parameter |-> prm] :
            gen \in FilesToGenerate(fs), prm \in {"", "vopkg=com.acme.vo"}} :
         fs \in {[i \in DOMAIN q |-> NoPackageCatalogue[q[i]]] :
                   q \in {r \in SeqsOver(DOMAIN NoPackageCatalogue, MaxFiles) : Distinct(r)}}}

NoPackageInit ==
  /\ data \in {[valid |-> TRUE, request |-> r] : r \in NoPackageRequests}
              \cup {[valid |-> FALSE, request |-> EmptyRequest]}
  /\ New
  /\ LegacyNew
  /\ Globals
  /\ InternalNew
  /\ NoCall
  /\ now = 0
  /\ run = 1
  /\ firstOutput = <<>>

NoPackageSpec == NoPackageInit /\ [][Next]_vars

\* the dotted nesting path of the type fld refers to, without the schema package
NestingPath(fld) == dottedSlice(ObjTypeName(allFiles, typeNameToObject[fld.TypeName]))

\* the artifact declares the field fld with the type rendered
DeclaredAs(content, fld, rendered) ==
  \E i \in DOMAIN content :
    HasPrefix(Unindented(content[i]),
              "public " \o (IF isRepeated(fld) THEN "List<" \o rendered \o ">" ELSE rendered)
              \o " " \o javaFieldName(fld) \o ";")

\* C26: in every value-object artifact of the response a message- or enum-typed
\* field whose type resolves is declared with the dotted nesting path of the
\* type it refers to, the schema package removed and nothing else; for a file
\* without a package .Hello is rendered as Hello.
RenderedAsNestingPath ==
  \A k \in DOMAIN Response.File :
    Work(allFiles, genFiles)[k].kind = "desc" =>
      \A fld \in TypeReferences(Work(allFiles, genFiles)[k]) :
        DeclaredAs(Response.File[k].Content, fld, NestingPath(fld))

\* C27: the artifacts of one response have pairwise distinct paths, whatever
\* the files to generate are, same-named types of files with different schema
\* packages included.
ArtifactPathsDistinct ==
  \A i, j \in DOMAIN Response.File :
    i # j => Response.File[i].Name # Response.File[j].Name

(***************************************************************************)
(* Properties of the shipped pipeline (Spec): indentation.                 *)
(***************************************************************************)
\* C28: between two artifacts the indentation is empty: every artifact of the
\* response starts and ends with a line that is not indented, the indentation
\* of the generator is a whole multiple of the indent unit and is empty
\* whenever the run has not failed, and Out leaves an empty indentation empty.
IndentationBalanced ==
  /\ Buffer.indent % DefaultIndent = 0
  /\ Buffer.fail = Nil => Buffer.indent = 0
  /\ Out([Buffer EXCEPT !.indent = 0, !.fail = Nil]).indent = 0
  /\ \A k \in DOMAIN Response.File :
       Len(Response.File[k].Content) > 0 =>
         /\ ~HasPrefix(Response.File[k].Content[1], " ")
         /\ ~HasPrefix(Response.File[k].Content[Len(Response.File[k].Content)], " ")

\* the run has ended with the artifacts of an enum, of a message with nested
\* messages and fields, and of a converter in the response
IndentationBalancedWitness ==
  /\ pc = "done"
  /\ Buffer.fail = Nil
  /\ Buffer.indent = 0
  /\ \E k \in DOMAIN Response.File :
       /\ Work(allFiles, genFiles)[k].kind = "desc"
       /\ allFiles[Work(allFiles, genFiles)[k].file]
            .desc[Work(allFiles, genFiles)[k].idx].nested # <<>>
       /\ \E i \in DOMAIN Response.File[k].Content :
            HasPrefix(Response.File[k].Content[i], Spaces(4 * DefaultIndent))
  /\ \E k \in DOMAIN Response.File : Work(allFiles, genFiles)[k].kind = "conv"
  /\ \E k \in DOMAIN Response.File : Work(allFiles, genFiles)[k].kind = "enum"

(***************************************************************************)
(* The loop of unescape turn by turn (UnescapeLoopSpec): result holds the  *)
(* s and the out of the function.                                          *)
(***************************************************************************)
UnescapeLoopInit ==
  /\ data = [valid |-> FALSE, request |-> EmptyRequest]
  /\ New
  /\ LegacyNew
  /\ Globals
  /\ InternalNew
  /\ arg \in EscapeInputs
  /\ result = [s |-> arg, out |-> <<>>]
  /\ now = 0
  /\ run = 1
  /\ firstOutput = <<>>

\* for len(s) > 0 { ... }
UnescapeLoopStep ==
  /\ Len(result.s) > 0
  /\ result' = [s |-> unescapeStep(result.s).rest, out |-> result.out \o unescapeStep(result.s).out]
  /\ UNCHANGED <<data, pc, Request, ValueObjectPackage, ConverterPackage, allFiles, genFiles,
                 typeNameToObject, Buffer, position, Response, stdout, stderr, exitStatus, now,
                 run, firstOutput>>
  /\ UNCHANGED <<Param, ImportMap, voPackage, packageName, Pkg, pkgNamesInUse,
                 uniquePackageName, globalPackageNames, registered>>
  /\ UNCHANGED internalVars
  /\ UNCHANGED arg

\* the loop runs on as long as s is not empty
UnescapeLoopSpec ==
  UnescapeLoopInit /\ [][UnescapeLoopStep]_vars /\ WF_vars(UnescapeLoopStep)

\* C30: unescape terminates on every input: a turn of its loop takes at least
\* one and at most four bytes off s, out is never longer than what has been
\* taken off s, and s is empty in the end.
UnescapeTerminates ==
  /\ [][Len(result.s) - Len(result'.s) \in 1..4]_vars
  /\ [](Len(result.out) + Len(result.s) <= Len(arg))
  /\ <>(Len(result.s) = 0)

\* the loop has come to the end of the literal \101\x42C in three turns, two of
\* them of four bytes
UnescapeTerminatesWitness ==
  /\ arg = LiteralABC
  /\ Len(result.s) = 0
  /\ result.out = <<65, 66, 67>>

====
